---------------------------- MODULE Spec2Model ----------------------------
(***************************************************************************)
(* Verification model of the multigrid solver (core/solver/multigrid.cpp), *)
(* of the CUDA executor (cuda/base/executor.cpp) and of two kernels        *)
(* (count_non_owning_entries, fill_coarse_indices) of Ginkgo.              *)
(*                                                                         *)
(* The module holds several specifications over one set of variables:      *)
(*   SpecGen    Multigrid::generate as a function of its parameters        *)
(*   SpecCycle  one cycle of MultigridState::run_cycle, step by step       *)
(*   SpecApply  the loop of Multigrid::apply_impl (FairSpecApply: with     *)
(*              weak fairness, the program keeps running)                  *)
(*   SpecNum    one V-cycle on a one-level hierarchy, with numbers         *)
(*   SpecCuda   the operations of CudaExecutor on a CUDA runtime           *)
(*   SpecRound  upload to a device buffer and download from it             *)
(*   SpecCoarsest  generate with lists of coarsest solvers                 *)
(*   SpecScaled the scaled apply, apply_impl(alpha, b, beta, x)            *)
(*   SpecCount  count_non_owning_entries, thread by thread                 *)
(*   SpecFill   fill_coarse_indices, iteration by iteration                *)
(* Every specification leaves the variables of the other parts idle.       *)
(***************************************************************************)
EXTENDS Integers, Sequences, FiniteSets, TLC

VARIABLES
    params,     \* parameters_ and system_matrix_ of a Multigrid object
    mg,         \* the members Multigrid::generate fills, and how it ended
    solve,      \* what one apply(b, x) is given: cycle_, kcycle_base,
                \* kcycle_rel_tol, the columns of b, the stopping criterion
    apc,        \* where apply_impl is: "idle", "loop", "cycle" or "done"
    iter,       \* apply_impl's iter
    state,      \* the MultigridState of the apply in progress
    stack,      \* the activations of run_cycle, the innermost last
    checks,     \* the iteration numbers the stopping criterion was given
    cycles,     \* the number of cycles apply_impl has completed
    x_writes,   \* the number of updates of apply's x so far
    trace,      \* the operations since the global residual was last computed
    num,        \* one V-cycle on a one-level hierarchy, with its numbers
    cuda,       \* the CUDA runtime: devices, ambient device, memory, streams
    last,       \* what the last executor operation was given and how it ended
    kern        \* a kernel in progress: its arguments, its arrays, its threads

genVars == <<params, mg>>
applyVars == <<solve, apc, iter, state, stack, checks, cycles, x_writes, trace>>
numVars == <<num>>
cudaVars == <<cuda, last>>
kernVars == <<kern>>

vars == <<params, mg, solve, apc, iter, state, stack, checks, cycles,
          x_writes, trace, num, cuda, last, kern>>

(***************************************************************************)
(* Bounds of the model.                                                    *)
(***************************************************************************)
MaxLevels == 2      \* max_levels ranges over 0..MaxLevels
MaxRows == 3        \* the system operator has 1..MaxRows rows
MaxList == 2        \* smoother and relaxation lists hold 0..MaxList entries
MaxDepth == 2       \* the hierarchies apply runs on have 1..MaxDepth levels
MaxIter == 2        \* the stopping criterion stops at iteration 0..MaxIter, or never
MaxKBase == 2       \* kcycle_base ranges over 1..MaxKBase
MaxRhs == 2         \* b has 1..MaxRhs columns
MaxVal == 1         \* the entries of b and x in the numeric V-cycle are 0..MaxVal
MaxDevices == 2     \* a CUDA runtime with devices has MaxDevices of them
BufLen == 1         \* the buffers raw_copy_to works on hold BufLen bytes

(***************************************************************************)
(* Values.                                                                 *)
(***************************************************************************)
NullF == [list |-> "nullptr", pos |-> 0] \* a null factory pointer
NoSmoother == [factory |-> NullF, matrix |-> 0]  \* a null smoother pointer
NoSolver == [kind |-> "unset"]           \* coarsest_solver_ before generate sets it

\* one_op_, the 1 x 1 Dense holding 1 that is the default relaxation
one_op == [view_of |-> "one_op", offset |-> 0, value |-> 1]

\* The coarsening factories of the model, by what their coarse operator's
\* row count is: rstr_prlg_factory->generate(matrix)->get_coarse_operator().
CoarseningKinds == {"half", "same", "grow"}

CoarseRows(kind, rows) ==
    CASE kind = "half" -> (rows + 1) \div 2
      [] kind = "same" -> rows
      [] kind = "grow" -> rows + 1

\* A factory list of n entries whose entry i is the factory <<name, i>>,
\* or a null pointer at the positions in nulls.
FactoryList(name, n, nulls) ==
    [i \in 1..n |-> IF (i - 1) \in nulls THEN NullF
                    ELSE [list |-> name, pos |-> i - 1]]

\* A relaxation array of n entries, the entry at offset k holding k + 2.
RelaxationArray(n) == [i \in 1..n |-> i + 1]

(***************************************************************************)
(* handle_list: resolve the smoother factory and the relaxation scalar of  *)
(* one level, and append them to the lists.  The smoother is appended      *)
(* before the relaxation array is looked at, so an out-of-bounds           *)
(* relaxation index leaves the smoother appended.                          *)
(***************************************************************************)
\* handle_list as it would be if an index past the end were clamped to the
\* last entry instead of raising an error
handle_list_clamping(index, matrix, smoother_list, relaxation_array, smoother, relaxation) ==
    LET list_size == Len(smoother_list)
        s_index == IF list_size = 1 THEN 0
                   ELSE IF index < list_size THEN index ELSE list_size - 1
        item == smoother_list[s_index + 1]
        smoother1 ==
            IF list_size # 0
            THEN IF item = NullF
                 THEN Append(smoother, NoSmoother)
                 ELSE Append(smoother, [factory |-> item, matrix |-> matrix])
            ELSE Append(smoother, NoSmoother)
        array_size == Len(relaxation_array)
        r_index == IF array_size = 1 THEN 0
                   ELSE IF index < array_size THEN index ELSE array_size - 1
        relaxation1 ==
            IF array_size # 0
            THEN Append(relaxation,
                        [view_of |-> "relaxation_array", offset |-> r_index,
                         value |-> relaxation_array[r_index + 1]])
            ELSE Append(relaxation, one_op)
    IN  [status |-> "ok", smoother |-> smoother1, relaxation |-> relaxation1]

handle_list(index, matrix, smoother_list, relaxation_array, smoother, relaxation) ==
    LET list_size == Len(smoother_list)
        s_index == IF list_size = 1 THEN 0 ELSE index
        s_in_bounds == list_size = 0 \/ s_index < list_size
        item == smoother_list[s_index + 1]
        smoother1 ==
            IF list_size # 0
            THEN IF item = NullF
                 THEN Append(smoother, NoSmoother)
                 ELSE Append(smoother, [factory |-> item, matrix |-> matrix])
            ELSE Append(smoother, NoSmoother)
        array_size == Len(relaxation_array)
        r_index == IF array_size = 1 THEN 0 ELSE index
        r_in_bounds == array_size = 0 \/ r_index < array_size
        relaxation1 ==
            IF array_size # 0
            THEN Append(relaxation,
                        [view_of |-> "relaxation_array", offset |-> r_index,
                         value |-> relaxation_array[r_index + 1]])
            ELSE Append(relaxation, one_op)
    IN  IF ~s_in_bounds
        THEN [status |-> "OutOfBoundsError", smoother |-> smoother,
              relaxation |-> relaxation]
        ELSE IF ~r_in_bounds
        THEN [status |-> "OutOfBoundsError", smoother |-> smoother1,
              relaxation |-> relaxation]
        ELSE [status |-> "ok", smoother |-> smoother1,
              relaxation |-> relaxation1]

(***************************************************************************)
(* Multigrid::generate.  The state of the loop is the record s:            *)
(* level, num_rows (of matrix, the current operator), the lists built so   *)
(* far, and status, which is "ok" until an exception is thrown.            *)
(***************************************************************************)
NewMultigrid(p) ==
    [status |-> "new",
     level |-> 0,
     num_rows |-> p.system_rows,
     rstr_prlg_list |-> <<>>,
     pre_smoother_list |-> <<>>,  pre_relaxation_list |-> <<>>,
     mid_smoother_list |-> <<>>,  mid_relaxation_list |-> <<>>,
     post_smoother_list |-> <<>>, post_relaxation_list |-> <<>>,
     coarsest_solver |-> NoSolver]

\* lines 383-386: the pre-smoother of the level
generate_pre(p, s, index) ==
    LET h == handle_list(index, s.num_rows, p.pre_smoother, p.pre_relaxation,
                         s.pre_smoother_list, s.pre_relaxation_list)
    IN  [s EXCEPT !.status = h.status,
                  !.pre_smoother_list = h.smoother,
                  !.pre_relaxation_list = h.relaxation]

\* lines 387-392: the mid-smoother of the level, only for mid_case = mid
generate_mid(p, s, index) ==
    IF s.status # "ok" \/ p.mid_case # "mid" THEN s
    ELSE LET h == handle_list(index, s.num_rows, p.mid_smoother, p.mid_relaxation,
                              s.mid_smoother_list, s.mid_relaxation_list)
         IN  [s EXCEPT !.status = h.status,
                       !.mid_smoother_list = h.smoother,
                       !.mid_relaxation_list = h.relaxation]

\* lines 393-398: the post-smoother of the level, unless post uses pre
generate_post(p, s, index) ==
    IF s.status # "ok" \/ p.post_uses_pre THEN s
    ELSE LET h == handle_list(index, s.num_rows, p.post_smoother, p.post_relaxation,
                              s.post_smoother_list, s.post_relaxation_list)
         IN  [s EXCEPT !.status = h.status,
                       !.post_smoother_list = h.smoother,
                       !.post_relaxation_list = h.relaxation]

\* line 378: the candidate level is dropped, and the loop left, when the
\* coarse operator has as many rows as the current one
no_reduction(coarse_rows, num_rows) == coarse_rows = num_rows

\* an index check that fails as a failed assertion does
ensure_in_bounds_as_mismatch(s, index, size) ==
    IF index < size THEN s ELSE [s EXCEPT !.status = "ValueMismatch"]

\* GKO_ENSURE_IN_BOUNDS(index, size), lines 374 and 423
GKO_ENSURE_IN_BOUNDS(s, index, size) ==
    IF index < size THEN s ELSE [s EXCEPT !.status = "OutOfBoundsError"]

\* the condition of the loop with a row bound that admits min_coarse_rows
loop_condition_inclusive(p, s) ==
    s.level < p.max_levels /\ s.num_rows >= p.min_coarse_rows

\* lines 371-372: the condition of the while loop
loop_condition(p, s) ==
    s.level < p.max_levels /\ s.num_rows > p.min_coarse_rows

\* lines 371-402: the while loop; returns the loop state at its exit
RECURSIVE generate_loop(_, _)
generate_loop(p, s) ==
    IF ~loop_condition(p, s) THEN s
    ELSE
      LET index == p.rstr_prlg_index[s.level] IN
      IF GKO_ENSURE_IN_BOUNDS(s, index, Len(p.rstr_prlg)).status # "ok"
      THEN GKO_ENSURE_IN_BOUNDS(s, index, Len(p.rstr_prlg))
      ELSE
        LET coarse_rows == CoarseRows(p.rstr_prlg[index + 1], s.num_rows) IN
        IF no_reduction(coarse_rows, s.num_rows) THEN s
        ELSE
          LET s1 == [s EXCEPT !.rstr_prlg_list =
                         Append(@, [factory |-> index, fine_rows |-> s.num_rows,
                                    coarse_rows |-> coarse_rows])]
              s2 == generate_pre(p, s1, index)
              s3 == generate_mid(p, s2, index)
              s4 == generate_post(p, s3, index)
          IN  IF s4.status # "ok" THEN s4
              ELSE generate_loop(p, [s4 EXCEPT !.num_rows = coarse_rows,
                                               !.level = s.level + 1])

\* the assignments of lines 403-413 with the mid lists assigned first
share_lists_mid_first(p, s) ==
    LET s1 == IF p.mid_case = "pre"
              THEN [s EXCEPT !.mid_smoother_list = s.pre_smoother_list,
                             !.mid_relaxation_list = s.pre_relaxation_list]
              ELSE IF p.mid_case = "post"
              THEN [s EXCEPT !.mid_smoother_list = s.post_smoother_list,
                             !.mid_relaxation_list = s.post_relaxation_list]
              ELSE s
    IN  IF p.post_uses_pre
        THEN [s1 EXCEPT !.post_smoother_list = s1.pre_smoother_list,
                        !.post_relaxation_list = s1.pre_relaxation_list]
        ELSE s1

\* lines 403-413: the lists that are shared by assignment
share_lists(p, s) ==
    LET s1 == IF p.post_uses_pre
              THEN [s EXCEPT !.post_smoother_list = s.pre_smoother_list,
                             !.post_relaxation_list = s.pre_relaxation_list]
              ELSE s
    IN  IF p.mid_case = "pre"
        THEN [s1 EXCEPT !.mid_smoother_list = s1.pre_smoother_list,
                        !.mid_relaxation_list = s1.pre_relaxation_list]
        ELSE IF p.mid_case = "post"
        THEN [s1 EXCEPT !.mid_smoother_list = s1.post_smoother_list,
                        !.mid_relaxation_list = s1.post_relaxation_list]
        ELSE s1

\* the assertion of line 415 left out
at_least_one_level_unchecked(s) == TRUE

\* line 415: GKO_ASSERT_EQ(level > 0, true)
at_least_one_level(s) == s.level > 0

\* a coarsest solver that is the identity whatever the factories are
generate_coarsest_identity(p, s) ==
    [s EXCEPT !.coarsest_solver = [kind |-> "identity", size |-> s.num_rows]]

\* lines 416-432: the coarsest solver, from the last coarse operator
generate_coarsest(p, s) ==
    IF Len(p.coarsest_solver) = 0
    THEN [s EXCEPT !.coarsest_solver = [kind |-> "identity", size |-> s.num_rows]]
    ELSE LET temp_index == p.solver_index IN
         IF GKO_ENSURE_IN_BOUNDS(s, temp_index, Len(p.coarsest_solver)).status
               # "ok"
         THEN GKO_ENSURE_IN_BOUNDS(s, temp_index, Len(p.coarsest_solver))
         ELSE LET solver == p.coarsest_solver[temp_index + 1] IN
              IF solver = NullF
              THEN [s EXCEPT !.coarsest_solver =
                        [kind |-> "identity", size |-> s.num_rows]]
              ELSE [s EXCEPT !.coarsest_solver =
                        [kind |-> "generated", factory |-> solver,
                         matrix |-> s.num_rows]]

\* lines 363-433
generate(p) ==
    LET s0 == generate_loop(p, [NewMultigrid(p) EXCEPT !.status = "ok"]) IN
    IF s0.status # "ok" THEN s0
    ELSE LET s1 == share_lists(p, s0) IN
         IF ~at_least_one_level(s1)
         THEN [s1 EXCEPT !.status = "ValueMismatch"]
         ELSE generate_coarsest(p, s1)

(***************************************************************************)
(* SpecGen: generate applied to every parameter set within the bounds.     *)
(***************************************************************************)
RstrPrlgLists ==
    {<<>>, <<"half">>, <<"grow">>, <<"half", "same">>,
     <<"half", "half", "grow">>}

\* The parameter sets of SpecGen.  The pre lists take every pair of sizes;
\* the mid and post lists take sizes n and MaxList - n, with a null factory
\* at entry 0 of the mid list and at entry 1 of the post list.
GenParams ==
    UNION {
      [max_levels : 0..MaxLevels,
       min_coarse_rows : 0..1,
       system_rows : 1..MaxRows,
       rstr_prlg : RstrPrlgLists,
       rstr_prlg_index : [0..(MaxLevels - 1) -> 0..2],
       pre_smoother : {FactoryList("pre", k, {}) : k \in 0..MaxList},
       pre_relaxation : {RelaxationArray(k) : k \in 0..MaxList},
       mid_smoother : {FactoryList("mid", n, {0})},
       mid_relaxation : {RelaxationArray(MaxList - n)},
       post_smoother : {FactoryList("post", MaxList - n, {1})},
       post_relaxation : {RelaxationArray(n)},
       mid_case : {"mid", "pre", "post"},
       post_uses_pre : BOOLEAN,
       coarsest_solver : {<<>>},
       solver_index : {0}] : n \in 0..MaxList }

\* The variables of apply while no apply is modelled.
ApplyIdle ==
    /\ solve = [cycle |-> "v"]
    /\ apc = "idle"
    /\ iter = -1
    /\ state = [r_list |-> <<>>]
    /\ stack = <<>>
    /\ checks = <<>>
    /\ cycles = 0
    /\ x_writes = 0
    /\ trace = <<>>

\* The variable of the numeric V-cycle while it is not modelled.
NumIdle == num = [pc |-> "idle"]
CudaIdle == cuda = [pc |-> "idle"] /\ last = [op |-> "none"]
KernIdle == kern = [pc |-> "idle"]

InitGen ==
    /\ params \in GenParams
    /\ mg = NewMultigrid(params)
    /\ ApplyIdle
    /\ NumIdle
    /\ KernIdle
    /\ CudaIdle

Generate ==
    /\ mg.status = "new"
    /\ mg' = generate(params)
    /\ UNCHANGED <<params, applyVars, numVars, cudaVars, kernVars>>

NextGen == Generate

SpecGen == InitGen /\ [][NextGen]_vars

(***************************************************************************)
(* Claims about generate, checked under SpecGen.                           *)
(***************************************************************************)
Generated == mg.status # "new"
Levels == Len(mg.rstr_prlg_list)

\* The three ways the loop of generate ends without a level: no level is
\* allowed, the system operator is small enough already, or the first
\* coarsening does not change the row count.
FirstIndex == params.rstr_prlg_index[0]
LoopEndsEmpty ==
    \/ params.max_levels = 0
    \/ params.system_rows <= params.min_coarse_rows
    \/ /\ FirstIndex < Len(params.rstr_prlg)
       /\ CoarseRows(params.rstr_prlg[FirstIndex + 1], params.system_rows)
              = params.system_rows

\* C1: generate commits at least one level or fails.  When the loop ends
\* with zero levels generate raises an error (the failed assertion, a
\* ValueMismatch, in the three cases of LoopEndsEmpty) and coarsest_solver_
\* stays unset; on every successful return there is at least one level.
C1_AtLeastOneLevelOrError ==
    Generated =>
        /\ (Levels = 0 => mg.status # "ok" /\ mg.coarsest_solver = NoSolver)
        /\ (LoopEndsEmpty =>
                mg.status = "ValueMismatch" /\ Levels = 0
                /\ mg.coarsest_solver = NoSolver)
        /\ (mg.status = "ok" => Levels >= 1 /\ mg.coarsest_solver # NoSolver)

\* C1's case: the first coarsening returned an operator of the same size
\* and generate failed its assertion.
C1_Witness ==
    /\ mg.status = "ValueMismatch"
    /\ params.max_levels > 0
    /\ params.system_rows > params.min_coarse_rows

\* C2: after a successful generate every committed level's coarse operator
\* has strictly fewer rows than the operator it was generated from, for any
\* coarsening factory.
C2_CoarseRowsStrictlyDecrease ==
    mg.status = "ok" =>
        \A i \in 1..Levels :
            mg.rstr_prlg_list[i].coarse_rows < mg.rstr_prlg_list[i].fine_rows

\* What a list of size n gives for index i: nothing for n = 0, entry 0 for
\* n = 1, entry i for n > 1.
ExpectedSmoother(list, i, rows) ==
    IF Len(list) = 0 THEN NoSmoother
    ELSE LET item == list[(IF Len(list) = 1 THEN 0 ELSE i) + 1] IN
         IF item = NullF THEN NoSmoother ELSE [factory |-> item, matrix |-> rows]

ExpectedRelaxation(array, i) ==
    IF Len(array) = 0 THEN one_op
    ELSE LET k == IF Len(array) = 1 THEN 0 ELSE i IN
         [view_of |-> "relaxation_array", offset |-> k, value |-> array[k + 1]]

\* The lists generate resolves per level: pre always, mid for mid_case = mid,
\* post unless post uses pre.
ResolvedLists ==
    {"pre"} \cup (IF params.mid_case = "mid" THEN {"mid"} ELSE {})
            \cup (IF params.post_uses_pre THEN {} ELSE {"post"})

FactoriesOf(which) ==
    CASE which = "pre" -> params.pre_smoother
      [] which = "mid" -> params.mid_smoother
      [] which = "post" -> params.post_smoother
ArrayOf(which) ==
    CASE which = "pre" -> params.pre_relaxation
      [] which = "mid" -> params.mid_relaxation
      [] which = "post" -> params.post_relaxation
SmoothersOf(which) ==
    CASE which = "pre" -> mg.pre_smoother_list
      [] which = "mid" -> mg.mid_smoother_list
      [] which = "post" -> mg.post_smoother_list
RelaxationsOf(which) ==
    CASE which = "pre" -> mg.pre_relaxation_list
      [] which = "mid" -> mg.mid_relaxation_list
      [] which = "post" -> mg.post_relaxation_list

\* The entries of every resolved list are the ones IndexOf(L) selects, and a
\* level whose index is past the end of a list of more than one entry makes
\* generate fail without appending an entry for it.
ResolvedBy(IndexOf(_)) ==
    Generated =>
      \A which \in ResolvedLists :
        /\ \A L \in 1..Levels :
             /\ (Len(FactoriesOf(which)) > 1
                 /\ IndexOf(L - 1) >= Len(FactoriesOf(which)))
                    => /\ mg.status = "OutOfBoundsError"
                       /\ Len(SmoothersOf(which)) < L
             /\ (Len(ArrayOf(which)) > 1
                 /\ IndexOf(L - 1) >= Len(ArrayOf(which)))
                    => /\ mg.status = "OutOfBoundsError"
                       /\ Len(RelaxationsOf(which)) < L
        /\ mg.status = "ok" =>
             \A L \in 1..Levels :
               /\ SmoothersOf(which)[L] =
                      ExpectedSmoother(FactoriesOf(which), IndexOf(L - 1),
                                       mg.rstr_prlg_list[L].fine_rows)
               /\ RelaxationsOf(which)[L] =
                      ExpectedRelaxation(ArrayOf(which), IndexOf(L - 1))

LevelIndex(level) == level
SelectorIndex(level) == params.rstr_prlg_index[level]

\* C3 as stated: a list of size n > 1 is indexed by the level L, and L >= n
\* is an out-of-bounds error; n = 0 gives the default and n = 1 entry 0.
C3_ResolvedByLevel == ResolvedBy(LevelIndex)

\* C3 as amended: a list of size n > 1 is indexed by the index the
\* coarsening selector returned for the level (the index that also picks the
\* coarsening factory), and that index >= n is an out-of-bounds error, never
\* clamped; n = 0 gives the default (no smoother, relaxation one_op_) and
\* n = 1 gives entry 0 at every level.  For the pre, mid and post lists, the
\* factory list and the relaxation array each by its own size.
C3_ResolvedBySelectorIndex == ResolvedBy(SelectorIndex)

\* C3's case: two levels were committed, the selector did not return the
\* level at one of them, and a list of more than one entry was resolved.
C3_Witness ==
    /\ mg.status = "ok"
    /\ Levels >= 2
    /\ Len(params.pre_smoother) > 1
    /\ Len(params.pre_relaxation) > 1
    /\ \E L \in 1..Levels :
          /\ SelectorIndex(L - 1) # L - 1
          /\ mg.pre_smoother_list[L].factory.pos = SelectorIndex(L - 1)


(***************************************************************************)
(* apply_impl and MultigridState::run_cycle.                               *)
(*                                                                         *)
(* run_cycle is recursive: an activation is a record on stack, and each    *)
(* action below runs the top activation from one recursive call (or its    *)
(* entry) to the next (or its return).  The vectors are kept by what the   *)
(* claims need of them: their sizes, and for the corrections e and d       *)
(* whether they are uninitialised, zero or written.  Dot products and      *)
(* norms are inputs.                                                       *)
(***************************************************************************)
\* kcycle_rel_tol: NaN, or the rational num / den
NaN == [kind |-> "nan", num |-> 0, den |-> 1]
Tol(n, d) == [kind |-> "num", num |-> n, den |-> d]
isnan(t) == t.kind = "nan"
\* comparisons with a NaN are false
lt_zero(t) == t.kind = "num" /\ t.num < 0
ge_zero(t) == t.kind = "num" /\ t.num >= 0

\* the vectors run_cycle reads and writes
Vec(list, idx) == [list |-> list, idx |-> idx]
B == Vec("b", 0)            \* apply's b
X == Vec("x", 0)            \* apply's x
NoVec == Vec("", 0)

Ev(op, level, cycle, vec) == [op |-> op, level |-> level, cycle |-> cycle, vec |-> vec]
IfEv(cond, evs) == IF cond THEN evs ELSE <<>>

IsK(cycle) == cycle = "kfcg" \/ cycle = "kgcr"

\* the constructor with g and e sized by the rows of their own level
MultigridState_fine_sized(m, system_rows, nrhs, cycle, k_base) ==
    LET list_size == Len(m.rstr_prlg_list)
        next_nrows(i) == m.rstr_prlg_list[i].coarse_rows
        current_nrows(i) == IF i = 1 THEN system_rows ELSE next_nrows(i - 1)
        k_levels == {i \in 1..list_size : IsK(cycle) /\ (i - 1) % k_base = 0}
        \* the entries of the ten K-cycle lists, one per level i with
        \* i % k_base = 0, in the order of the levels
        k_entry(j) == CHOOSE i \in k_levels :
                          Cardinality({h \in k_levels : h < i}) = j - 1
    IN  [r_list |-> [i \in 1..list_size |->
                        [rows |-> current_nrows(i), cols |-> nrhs]],
         g_list |-> [i \in 1..list_size |->
                        [rows |-> current_nrows(i), cols |-> nrhs]],
         e_list |-> [i \in 1..list_size |->
                        [rows |-> current_nrows(i), cols |-> nrhs, val |-> "uninit"]],
         \* alpha, beta, gamma, rho, zeta, old_norm, new_norm: 1 x nrhs
         scalar_lists |-> [j \in 1..Cardinality(k_levels) |->
                        [rows |-> 1, cols |-> nrhs]],
         \* v, w: next level's nrows x nrhs
         vw_lists |-> [j \in 1..Cardinality(k_levels) |->
                        [rows |-> next_nrows(k_entry(j)), cols |-> nrhs]],
         d_list |-> [j \in 1..Cardinality(k_levels) |->
                        [rows |-> next_nrows(k_entry(j)), cols |-> nrhs,
                         val |-> "uninit"]]]

\* lines 110-173: the constructor of MultigridState
MultigridState(m, system_rows, nrhs, cycle, k_base) ==
    LET list_size == Len(m.rstr_prlg_list)
        next_nrows(i) == m.rstr_prlg_list[i].coarse_rows
        current_nrows(i) == IF i = 1 THEN system_rows ELSE next_nrows(i - 1)
        k_levels == {i \in 1..list_size : IsK(cycle) /\ (i - 1) % k_base = 0}
        \* the entries of the ten K-cycle lists, one per level i with
        \* i % k_base = 0, in the order of the levels
        k_entry(j) == CHOOSE i \in k_levels :
                          Cardinality({h \in k_levels : h < i}) = j - 1
    IN  [r_list |-> [i \in 1..list_size |->
                        [rows |-> current_nrows(i), cols |-> nrhs]],
         g_list |-> [i \in 1..list_size |->
                        [rows |-> next_nrows(i), cols |-> nrhs]],
         e_list |-> [i \in 1..list_size |->
                        [rows |-> next_nrows(i), cols |-> nrhs, val |-> "uninit"]],
         \* alpha, beta, gamma, rho, zeta, old_norm, new_norm: 1 x nrhs
         scalar_lists |-> [j \in 1..Cardinality(k_levels) |->
                        [rows |-> 1, cols |-> nrhs]],
         \* v, w: next level's nrows x nrhs
         vw_lists |-> [j \in 1..Cardinality(k_levels) |->
                        [rows |-> next_nrows(k_entry(j)), cols |-> nrhs]],
         d_list |-> [j \in 1..Cardinality(k_levels) |->
                        [rows |-> next_nrows(k_entry(j)), cols |-> nrhs,
                         val |-> "uninit"]]]

\* the state after the vectors in ws (a sequence) were written
Written(st, ws) ==
    LET hit(list, i) == \E k \in 1..Len(ws) : ws[k] = Vec(list, i - 1) IN
    [st EXCEPT
        !.e_list = [i \in DOMAIN @ |->
                       IF hit("e", i) THEN [@[i] EXCEPT !.val = "set"] ELSE @[i]],
        !.d_list = [i \in DOMAIN @ |->
                       IF hit("d", i) THEN [@[i] EXCEPT !.val = "set"] ELSE @[i]]]

CountX(ws) == Cardinality({k \in 1..Len(ws) : ws[k] = X})

\* the loop of lines 468-473 left out
zero_corrections_skipped(st) == st

\* lines 468-473: every correction vector is filled with zeros
zero_corrections(st) ==
    [st EXCEPT !.e_list = [i \in DOMAIN @ |-> [@[i] EXCEPT !.val = "zero"]]]

\* one activation of run_cycle(cycle, level, matrix, b, x)
Activation(cycle, level, b, x) ==
    [cycle |-> cycle, level |-> level, b |-> b, x |-> x, pc |-> "enter",
     calls |-> <<>>,          \* the sub-solves made so far, in order
     step1 |-> FALSE,         \* kcycle_step_1 ran
     step2 |-> FALSE,         \* kcycle_step_2 ran
     is_stop |-> TRUE,        \* the local is_stop, once step 1 ran
     old_norm |-> <<>>, new_norm |-> <<>>]

Top == stack[Len(stack)]
Running(pc) == apc = "cycle" /\ stack # <<>> /\ Top.pc = pc
SetTop(f) == [stack EXCEPT ![Len(stack)] = f]

total_level == Len(mg.rstr_prlg_list)

\* lines 180-194: every .at(level) of run_cycle finds an entry
lookups_in_range(level) ==
    /\ level < Len(state.r_list)
    /\ level < Len(state.g_list)
    /\ level < Len(state.e_list)
    /\ level < Len(mg.rstr_prlg_list)
    /\ level < Len(mg.pre_smoother_list)
    /\ level < Len(mg.pre_relaxation_list)
    /\ level < Len(mg.mid_smoother_list)
    /\ level < Len(mg.mid_relaxation_list)
    /\ level < Len(mg.post_smoother_list)
    /\ level < Len(mg.post_relaxation_list)

\* lines 254-264: the K-cycle lookups .at(k_idx) find an entry
k_lookups_in_range(k_idx) ==
    /\ k_idx < Len(state.scalar_lists)
    /\ k_idx < Len(state.vw_lists)
    /\ k_idx < Len(state.d_list)

\* std::out_of_range leaves apply_impl
Throw(what) ==
    /\ apc' = what
    /\ stack' = <<>>
    /\ UNCHANGED <<solve, iter, state, checks, cycles, x_writes, trace>>

\* lines 210-215, 234-247, 298-304: the sub-solve for the correction x_sub:
\* the coarsest solver at the last level, an activation at level + 1 below
SubSolve(f, sub_cycle, x_sub, next_pc, ws, evs) ==
    LET g == Vec("g", f.level) IN
    IF f.level + 1 = total_level
    THEN /\ stack' = SetTop([f EXCEPT !.pc = next_pc,
                !.calls = Append(@, [kind |-> "coarsest_solver", cycle |-> "none",
                                     x |-> x_sub])])
         /\ state' = Written(state, ws \o <<x_sub>>)
         /\ trace' = trace \o evs \o <<Ev("coarsest", f.level, f.cycle, x_sub)>>
    ELSE /\ stack' = Append(SetTop([f EXCEPT !.pc = next_pc,
                !.calls = Append(@, [kind |-> "run_cycle", cycle |-> sub_cycle,
                                     x |-> x_sub])]),
                            Activation(sub_cycle, f.level + 1, g, x_sub))
         /\ state' = Written(state, ws)
         /\ trace' = trace \o evs \o <<Ev("call", f.level + 1, sub_cycle, x_sub)>>

\* the second sub-call as it would be without the test of line 237
second_cycle_unchanged(cycle) == cycle

\* the cycle type of the second sub-call of an F or W activation
\* (lines 237-246): an F-cycle continues as a V-cycle
second_cycle(cycle) == IF cycle = "f" THEN "v" ELSE cycle

\* an entry that never recomputes the residual
residual_on_entry_never(level) == FALSE

\* line 196: the residual of level 0 is computed outside of the cycle
residual_on_entry(level) == level # 0

\* lines 180-215: entry, pre-smoothing, restriction and the first sub-solve
RunCycleEnter ==
    /\ Running("enter")
    /\ LET f == Top
           level == f.level
       IN  IF ~lookups_in_range(level) THEN Throw("out_of_range")
           ELSE
             LET pre_smoother == mg.pre_smoother_list[level + 1] # NoSmoother
                 evs == <<Ev("activate", level, f.cycle, f.x)>>
                        \o IfEv(residual_on_entry(level),
                                <<Ev("residual", level, f.cycle, f.x)>>)
                        \o IfEv(pre_smoother,
                                <<Ev("pre_smooth", level, f.cycle, f.x),
                                  Ev("residual", level, f.cycle, f.x)>>)
                        \o <<Ev("restrict", level, f.cycle, Vec("g", level))>>
                 ws == IF pre_smoother THEN <<f.x>> ELSE <<>>
             IN  /\ SubSolve(f, f.cycle, Vec("e", level), "second", ws, evs)
                 /\ x_writes' = x_writes + CountX(ws)
                 /\ UNCHANGED <<solve, apc, iter, checks, cycles>>
    /\ UNCHANGED <<genVars, numVars, cudaVars, kernVars>>

\* lines 217-247: the second half of an F- or W-cycle activation
RunCycleSecond ==
    /\ Running("second")
    /\ Top.cycle \in {"f", "w"}
    /\ LET f == Top
           level == f.level
           mid_smoother == mg.mid_smoother_list[level + 1] # NoSmoother
           evs == <<Ev("prolong", level, f.cycle, f.x),
                    Ev("residual", level, f.cycle, f.x)>>
                  \o IfEv(mid_smoother,
                          <<Ev("mid_smooth", level, f.cycle, f.x),
                            Ev("residual", level, f.cycle, f.x)>>)
                  \o <<Ev("restrict", level, f.cycle, Vec("g", level))>>
           ws == <<f.x>> \o (IF mid_smoother THEN <<f.x>> ELSE <<>>)
       IN  /\ SubSolve(f, second_cycle(f.cycle), Vec("e", level), "post", ws, evs)
           /\ x_writes' = x_writes + CountX(ws)
    /\ UNCHANGED <<solve, apc, iter, checks, cycles>>
    /\ UNCHANGED <<genVars, numVars, cudaVars, kernVars>>

\* the test of lines 248-250 without its condition on the level
k_active_at_every_level(cycle, level, k_base) == IsK(cycle)

\* lines 248-250: whether the activation does the Krylov correction
k_active(cycle, level, k_base) == IsK(cycle) /\ level % k_base = 0

\* line 216-250, the else of both tests: a V-cycle activation, and a K-cycle
\* activation at a level that is no multiple of k_base, do nothing here
RunCycleNoSecond ==
    /\ Running("second")
    /\ Top.cycle \notin {"f", "w"}
    /\ ~k_active(Top.cycle, Top.level, solve.k_base)
    /\ stack' = SetTop([Top EXCEPT !.pc = "post"])
    /\ UNCHANGED <<solve, apc, iter, state, checks, cycles, x_writes, trace>>
    /\ UNCHANGED <<genVars, numVars, cudaVars, kernVars>>

\* the norms compute_norm2 can give for a vector of nrhs columns
Norms == 0..1
NormVecs == [1..solve.nrhs -> Norms]

\* kcycle_check_stop (core/solver/multigrid_kernels): is_stop is true when
\* every column has new_norm <= rel_tol * old_norm
kcycle_check_stop(old_norm, new_norm, rel_tol) ==
    \A c \in DOMAIN old_norm :
        new_norm[c] * rel_tol.den <= rel_tol.num * old_norm[c]

\* lines 273 and 285: the norms are taken and the stop check is made
checks_norms(rel_tol) == ~isnan(rel_tol) /\ ge_zero(rel_tol)

\* lines 253-291: the first Krylov step and the stop check
RunCycleKStep1 ==
    /\ Running("second")
    /\ Top.cycle \notin {"f", "w"}
    /\ k_active(Top.cycle, Top.level, solve.k_base)
    /\ LET f == Top
           level == f.level
           k_idx == level \div solve.k_base
           e == Vec("e", level)
           d == Vec("d", k_idx)
       IN  IF ~k_lookups_in_range(k_idx) THEN Throw("out_of_range")
           ELSE
             /\ \E old_norm \in NormVecs, new_norm \in NormVecs :
                  LET check == checks_norms(solve.rel_tol)
                      is_stop == IF check
                                 THEN kcycle_check_stop(old_norm, new_norm, solve.rel_tol)
                                 ELSE TRUE
                  IN  /\ stack' = SetTop([f EXCEPT
                             !.pc = "kbranch", !.step1 = TRUE, !.is_stop = is_stop,
                             !.old_norm = IF check THEN old_norm ELSE <<>>,
                             !.new_norm = IF check THEN new_norm ELSE <<>>])
                      /\ trace' = trace
                             \o IfEv(check, <<Ev("old_norm", level, f.cycle, NoVec)>>)
                             \o <<Ev("kcycle_step_1", level, f.cycle, e)>>
                             \o IfEv(check, <<Ev("new_norm", level, f.cycle, NoVec),
                                              Ev("kcycle_check_stop", level, f.cycle, NoVec)>>)
             /\ state' = Written(state, <<e, d>>)
             /\ UNCHANGED <<solve, apc, iter, checks, cycles, x_writes>>
    /\ UNCHANGED <<genVars, numVars, cudaVars, kernVars>>

\* line 295 without its first disjunct, rel_tol < 0
second_step_unless_stopped(rel_tol, is_stop) == ge_zero(rel_tol) /\ ~is_stop

\* line 295 with the second step taken when the check reports stop
second_step_when_stopped(rel_tol, is_stop) ==
    lt_zero(rel_tol) \/ (ge_zero(rel_tol) /\ is_stop)

\* line 295: whether the second Krylov step is taken
second_step(rel_tol, is_stop) == lt_zero(rel_tol) \/ (ge_zero(rel_tol) /\ ~is_stop)

\* lines 295-304: the sub-solve of the second Krylov step, writing d
RunCycleKBranch ==
    /\ Running("kbranch")
    /\ LET f == [Top EXCEPT !.old_norm = <<>>, !.new_norm = <<>>]
           d == Vec("d", f.level \div solve.k_base)
       IN  IF second_step(solve.rel_tol, f.is_stop)
           THEN SubSolve(f, f.cycle, d, "kstep2", <<>>, <<>>)
           ELSE /\ stack' = SetTop([f EXCEPT !.pc = "post"])
                /\ UNCHANGED <<state, trace>>
    /\ UNCHANGED <<solve, apc, iter, checks, cycles, x_writes>>
    /\ UNCHANGED <<genVars, numVars, cudaVars, kernVars>>

\* lines 305-316: the second Krylov step, after its sub-solve
RunCycleKStep2 ==
    /\ Running("kstep2")
    /\ LET f == Top
           e == Vec("e", f.level)
       IN  /\ stack' = SetTop([f EXCEPT !.pc = "post", !.step2 = TRUE])
           /\ state' = Written(state, <<e>>)
           /\ trace' = Append(trace, Ev("kcycle_step_2", f.level, f.cycle, e))
    /\ UNCHANGED <<solve, apc, iter, checks, cycles, x_writes>>
    /\ UNCHANGED <<genVars, numVars, cudaVars, kernVars>>

\* lines 319-328: prolongation, post-smoothing and the return
RunCyclePost ==
    /\ Running("post")
    /\ LET f == Top
           level == f.level
           post_smoother == mg.post_smoother_list[level + 1] # NoSmoother
           ws == <<f.x>> \o (IF post_smoother THEN <<f.x>> ELSE <<>>)
       IN  /\ stack' = SubSeq(stack, 1, Len(stack) - 1)
           /\ state' = Written(state, ws)
           /\ x_writes' = x_writes + CountX(ws)
           /\ trace' = trace
                  \o <<Ev("prolong", level, f.cycle, f.x)>>
                  \o IfEv(post_smoother,
                          <<Ev("residual", level, f.cycle, f.x),
                            Ev("post_smooth", level, f.cycle, f.x)>>)
                  \o <<Ev("return", level, f.cycle, f.x)>>
    /\ UNCHANGED <<solve, apc, iter, checks, cycles>>
    /\ UNCHANGED <<genVars, numVars, cudaVars, kernVars>>

\* The stopping criterion of the model: one that first reports stop at
\* iteration stop_at, or never (stop_at = -1).
NeverStops == -1
criterion_check(sv, it) == sv.stop_at # NeverStops /\ it >= sv.stop_at

\* line 458: ++iter
next_iter(it) == it + 1

\* the loop as it would be if the result of the check were dropped
breaks_never(stopped) == FALSE

\* lines 461-467: the loop is left when the criterion reports stop
breaks(stopped) == stopped

\* lines 439-456: apply_impl up to its loop
ApplyBegin ==
    /\ apc = "start"
    /\ state' = MultigridState(mg, params.system_rows, solve.nrhs, solve.cycle,
                               solve.k_base)
    /\ iter' = -1
    /\ trace' = <<Ev("residual", 0, solve.cycle, X)>>
    /\ apc' = "loop"
    /\ UNCHANGED <<solve, stack, checks, cycles, x_writes>>
    /\ UNCHANGED <<genVars, numVars, cudaVars, kernVars>>

\* lines 457-474: one pass of the loop up to the call of run_cycle, or the
\* break.  The counter is capped at MaxIter for a criterion that never stops.
ApplyCheck ==
    /\ apc = "loop"
    /\ iter < MaxIter
    /\ iter' = next_iter(iter)
    /\ checks' = Append(checks, iter')
    /\ IF breaks(criterion_check(solve, iter'))
       THEN /\ apc' = "done"
            /\ trace' = Append(trace, Ev("criterion", 0, solve.cycle, NoVec))
            /\ UNCHANGED <<state, stack>>
       ELSE /\ apc' = "cycle"
            /\ state' = zero_corrections(state)
            /\ stack' = <<Activation(solve.cycle, 0, B, X)>>
            /\ trace' = trace
                   \o <<Ev("criterion", 0, solve.cycle, NoVec)>>
                   \o [i \in 1..Len(state.e_list) |->
                          Ev("fill_zero", i - 1, solve.cycle, Vec("e", i - 1))]
                   \o <<Ev("call", 0, solve.cycle, X)>>
    /\ UNCHANGED <<solve, cycles, x_writes>>
    /\ UNCHANGED <<genVars, numVars, cudaVars, kernVars>>

\* lines 475-476: run_cycle has returned; the global residual is recomputed
ApplyAfterCycle ==
    /\ apc = "cycle"
    /\ stack = <<>>
    /\ cycles' = cycles + 1
    /\ trace' = <<Ev("residual", 0, solve.cycle, X)>>
    /\ apc' = "loop"
    /\ UNCHANGED <<solve, iter, state, stack, checks, x_writes>>
    /\ UNCHANGED <<genVars, numVars, cudaVars, kernVars>>

(***************************************************************************)
(* SpecCycle: apply(b, x) on the hierarchies generate builds by halving.   *)
(***************************************************************************)
RelTols == {NaN, Tol(-1, 1), Tol(0, 1), Tol(1, 2), Tol(1, 1)}

\* hierarchies of 1..MaxDepth levels, every combination of smoothers
CycleParams ==
    UNION {
      [max_levels : {depth},
       min_coarse_rows : {1},
       system_rows : {2 ^ depth},
       rstr_prlg : {<<"half">>},
       rstr_prlg_index : {[l \in 0..(MaxDepth - 1) |-> 0]},
       pre_smoother : {FactoryList("pre", k, {}) : k \in 0..1},
       pre_relaxation : {RelaxationArray(1)},
       mid_smoother : {FactoryList("mid", 1, {})},
       mid_relaxation : {RelaxationArray(0)},
       post_smoother : {FactoryList("post", 1, {})},
       post_relaxation : {RelaxationArray(1)},
       mid_case : {"mid", "pre", "post"},
       post_uses_pre : BOOLEAN,
       coarsest_solver : {<<>>},
       solver_index : {0}] : depth \in 1..MaxDepth }

\* kcycle_base and kcycle_rel_tol are read by the K-cycles only
Solves(stops) ==
    [cycle : {"v", "w", "f"}, k_base : {1}, rel_tol : {Tol(1, 1)},
     nrhs : 1..MaxRhs, stop_at : stops]
    \cup
    [cycle : {"kfcg", "kgcr"}, k_base : 1..MaxKBase, rel_tol : RelTols,
     nrhs : 1..MaxRhs, stop_at : stops]

InitApply(ps, ss) ==
    /\ params \in ps
    /\ mg = generate(params)
    /\ solve \in ss
    /\ apc = "start"
    /\ iter = -1
    /\ state = [r_list |-> <<>>]
    /\ stack = <<>>
    /\ checks = <<>>
    /\ cycles = 0
    /\ x_writes = 0
    /\ trace = <<>>
    /\ NumIdle
    /\ KernIdle
    /\ CudaIdle

\* solves of one cycle: the criterion stops at iteration 1
InitCycle == InitApply(CycleParams, Solves({1}))

NextCycle ==
    \/ ApplyBegin
    \/ ApplyCheck
    \/ RunCycleEnter
    \/ RunCycleSecond
    \/ RunCycleNoSecond
    \/ RunCycleKStep1
    \/ RunCycleKBranch
    \/ RunCycleKStep2
    \/ RunCyclePost
    \/ ApplyAfterCycle

SpecCycle == InitCycle /\ [][NextCycle]_vars

(***************************************************************************)
(* SpecApply: the outer loop of apply(b, x), for every stopping iteration  *)
(* within the bound and for a criterion that never stops.                  *)
(***************************************************************************)
ApplyParams ==
    {p \in CycleParams : p.mid_case = "mid" /\ ~p.post_uses_pre}

ApplySolves ==
    [cycle : {"v", "w", "f", "kfcg", "kgcr"}, k_base : {1},
     rel_tol : {Tol(1, 2)}, nrhs : {1},
     stop_at : {NeverStops} \cup 0..MaxIter]

InitOuter == InitApply(ApplyParams, ApplySolves)

SpecApply == InitOuter /\ [][NextCycle]_vars

\* apply_impl runs on one thread, which takes its next step whenever it has one
FairSpecApply == SpecApply /\ WF_vars(NextCycle)

(***************************************************************************)
(* Claims about run_cycle, checked under SpecCycle.                        *)
(***************************************************************************)
Frames == {stack[i] : i \in 1..Len(stack)}
LastLevel(f) == f.level + 1 = total_level
KActive(f) == IsK(f.cycle) /\ f.level % solve.k_base = 0
DVec(f) == Vec("d", f.level \div solve.k_base)
EVec(f) == Vec("e", f.level)
SubCall(f, cycle, x) ==
    IF LastLevel(f) THEN [kind |-> "coarsest_solver", cycle |-> "none", x |-> x]
    ELSE [kind |-> "run_cycle", cycle |-> cycle, x |-> x]

C5_SubCallTypes ==
    /\ \A f \in Frames :
          f.pc = "post" =>
            /\ f.cycle = "f" =>
                  f.calls = <<SubCall(f, "f", EVec(f)), SubCall(f, "v", EVec(f))>>
            /\ f.cycle = "w" =>
                  f.calls = <<SubCall(f, "w", EVec(f)), SubCall(f, "w", EVec(f))>>
            /\ f.cycle = "v" =>
                  f.calls = <<SubCall(f, "v", EVec(f))>>
    /\ \A i \in 2..Len(stack) :
          LET caller == stack[i - 1]
              newest == caller.calls[Len(caller.calls)]
          IN  /\ newest.kind = "run_cycle"
              /\ stack[i].cycle = newest.cycle
              /\ stack[i].level = caller.level + 1

\* C5's case: an F-cycle activation above the last level has made both of
\* its sub-calls.
C5_Witness ==
    \E f \in Frames :
        /\ f.cycle = "f" /\ f.pc = "post" /\ ~LastLevel(f)
        /\ Len(f.calls) = 2 /\ f.calls[2].cycle = "v"

(***************************************************************************)
(* Claims about the loop of apply, checked under SpecApply.                *)
(***************************************************************************)
\* the criterion was asked for the iterations 0, 1, 2, ... in order
ChecksInOrder ==
    /\ Len(checks) = iter + 1
    /\ \A k \in 1..Len(checks) : checks[k] = k - 1

\* C6: the stopping criterion is consulted once before each cycle, with the
\* iteration numbers 0, 1, 2, ... and never while a cycle is in progress;
\* an iteration that does not stop zeroes every correction vector, runs one
\* complete cycle from level 0 and recomputes the global residual.  The
\* number of cycles run is the index of the first check that reports stop;
\* when that is check 0 no cycle runs and x is not written.
C6_LoopState ==
    /\ ChecksInOrder
    /\ apc = "loop" =>
          /\ cycles = Len(checks) /\ stack = <<>>
          /\ trace = <<Ev("residual", 0, solve.cycle, X)>>
    /\ apc = "cycle" =>
          /\ cycles = Len(checks) - 1
          /\ stack # <<>> =>
                /\ stack[1].level = 0 /\ stack[1].cycle = solve.cycle
                /\ stack[1].b = B /\ stack[1].x = X
          /\ (Len(stack) = 1 /\ stack[1].pc = "enter") =>
                \A i \in DOMAIN state.e_list : state.e_list[i].val = "zero"
    /\ apc = "done" =>
          /\ cycles = Len(checks) - 1
          /\ cycles = solve.stop_at
          /\ stack = <<>>
          /\ (solve.stop_at = 0 => x_writes = 0)
          /\ (solve.stop_at > 0 => x_writes > 0)

C6_LoopSteps ==
    /\ checks' # checks =>
          /\ apc = "loop" /\ stack = <<>> /\ Len(checks') = Len(checks) + 1
          /\ trace = <<Ev("residual", 0, solve.cycle, X)>>
    /\ cycles' # cycles =>
          /\ cycles' = cycles + 1 /\ apc = "cycle" /\ stack = <<>>
          /\ trace[Len(trace)] = Ev("return", 0, solve.cycle, X)
          /\ trace' = <<Ev("residual", 0, solve.cycle, X)>>

C6_CheckThenCycle == [](C6_LoopState) /\ [][C6_LoopSteps]_vars

\* C6's case: the second check reported stop after one cycle was run.
C6_Witness ==
    /\ apc = "done" /\ checks = <<0, 1>> /\ cycles = 1 /\ x_writes > 0

\* C7: apply returns exactly when the criterion reports stop.  If it reports
\* stop at iteration n the loop is left after exactly n cycles, and every
\* cycle ends, the activations on the stack being at the levels 0, 1, 2, ...
\* below the number of levels; if it never reports stop the loop is never
\* left.
C7_State ==
    /\ \A i \in 1..Len(stack) :
          stack[i].level = i - 1 /\ stack[i].level < total_level
    /\ apc = "done" => solve.stop_at # NeverStops /\ cycles = solve.stop_at
    /\ apc \in {"start", "loop", "cycle", "done"}

C7_Termination ==
    /\ [](C7_State)
    /\ (solve.stop_at # NeverStops) ~> (apc = "done")

\* C7's case: the criterion stopped at iteration MaxIter and the loop was
\* left after that many cycles.
C7_Witness ==
    apc = "done" /\ solve.stop_at = MaxIter /\ cycles = MaxIter



(***************************************************************************)
(* One V-cycle on a hierarchy of one level with the identity as coarsest   *)
(* solver, computed with numbers: run_cycle(v, 0, A, b, x) as called by    *)
(* the loop of apply_impl.  Vectors are sequences of integers (one column),*)
(* matrices are sequences of rows; a null operator is the empty sequence.  *)
(***************************************************************************)
NoOp == <<>>

RECURSIVE Dot(_, _)
Dot(u, v) == IF u = <<>> THEN 0 ELSE Head(u) * Head(v) + Dot(Tail(u), Tail(v))

\* LinOp::apply(b, x): x = M * b
Apply(M, b) ==
    LET y == [i \in 1..Len(M) |-> Dot(M[i], b)] IN SubSeq(y, 1, Len(M))

\* LinOp::apply(alpha, b, beta, x): x = alpha * M * b + beta * x
ApplyScaled(alpha, M, b, beta, x) ==
    LET y == [i \in 1..Len(x) |-> alpha * Dot(M[i], b) + beta * x[i]]
    IN  SubSeq(y, 1, Len(x))

\* r->copy_from(b); matrix->apply(neg_one, x, one, r)
Residual(A, b, x) == ApplyScaled(-1, A, x, 1, b)

\* restrict_apply(r, g): g = R * r
restrict_apply(R, r) == Apply(R, r)

\* prolongation that overwrites x instead of adding to it
prolong_apply(P, e, x) == Apply(P, e)

\* prolong_applyadd(e, x): x = x + P * e
prolong_applyadd(P, e, x) == ApplyScaled(1, P, e, 1, x)

\* matrix::Identity::apply(g, e): e = g
identity_apply(g) == g

\* lines 195-215 and 319-327 for cycle = v, level = 0, total_level = 1:
\* h holds the operators of the level, r the residual apply_impl computed
run_cycle_v(h, b, x, r) ==
    LET x1 == IF h.pre_smoother # NoOp
              THEN ApplyScaled(h.pre_relaxation, h.pre_smoother, r, 1, x)
              ELSE x
        r1 == IF h.pre_smoother # NoOp THEN Residual(h.A, b, x1) ELSE r
        g == restrict_apply(h.R, r1)
        e == identity_apply(g)
        x2 == prolong_applyadd(h.P, e, x1)
        r2 == IF h.post_smoother # NoOp THEN Residual(h.A, b, x2) ELSE r1
        x3 == IF h.post_smoother # NoOp
              THEN ApplyScaled(h.post_relaxation, h.post_smoother, r2, 1, x2)
              ELSE x2
    IN  [x |-> x3, r |-> r2, g |-> g, e |-> e]

\* the operators of the numeric model: 2 fine rows, 1 coarse row
SystemMatrices ==
    {<<<<1, 0>>, <<0, 1>>>>, <<<<2, -1>>, <<-1, 2>>>>, <<<<1, 2>>, <<3, 2>>>>}
Restrictions == {<<<<r1, r2>>>> : r1 \in 0..1, r2 \in 0..1}
Prolongations == {<<<<p1>>, <<p2>>>> : p1 \in 0..1, p2 \in 0..1}
Smoothers == {NoOp, <<<<1, 0>>, <<0, 1>>>>, <<<<0, 1>>, <<1, 0>>>>}
NumVectors == {<<v1, v2>> : v1 \in 0..MaxVal, v2 \in 0..MaxVal}

NumHierarchies ==
    [A : SystemMatrices, R : Restrictions, P : Prolongations,
     pre_smoother : Smoothers, pre_relaxation : {1},
     post_smoother : Smoothers, post_relaxation : {2}]

\* apply_impl has computed the residual of the initial guess (lines 449-452)
InitNum ==
    /\ \E h \in NumHierarchies, b \in NumVectors, x \in NumVectors :
          num = [pc |-> "loop", h |-> h, b |-> b, x |-> x,
                 r |-> Residual(h.A, b, x), x_old |-> x]
    /\ params = [max_levels |-> 1]
    /\ mg = [status |-> "ok"]
    /\ ApplyIdle
    /\ CudaIdle
    /\ KernIdle

\* lines 468-476: one pass of the loop whose criterion did not stop
NumCycle ==
    /\ num.pc = "loop"
    /\ LET c == run_cycle_v(num.h, num.b, num.x, num.r) IN
       num' = [num EXCEPT !.pc = "done", !.x = c.x,
                          !.r = Residual(num.h.A, num.b, c.x), !.x_old = num.x]
    /\ UNCHANGED <<genVars, applyVars, cudaVars, kernVars>>

NextNum == NumCycle

SpecNum == InitNum /\ [][NextNum]_vars

(***************************************************************************)
(* Claims about the numeric V-cycle, checked under SpecNum.                *)
(***************************************************************************)
VecPlus(u, v) == [i \in 1..Len(u) |-> u[i] + v[i]]
VecScale(a, v) == [i \in 1..Len(v) |-> a * v[i]]
MatTimes(M, v) == [i \in 1..Len(M) |-> Dot(M[i], v)]
ResidualOf(x) == VecPlus(num.b, VecScale(-1, MatTimes(num.h.A, x)))

\* x + relax * Smoother(b - A * x), or x when there is no smoother
Smoothed(smoother, relax, x) ==
    IF smoother = NoOp THEN x
    ELSE VecPlus(x, VecScale(relax, MatTimes(smoother, ResidualOf(x))))

\* x + P * R * (b - A * x), the correction from the coarse level when the
\* coarsest solver is the identity
CoarseCorrected(x) ==
    VecPlus(x, MatTimes(num.h.P, MatTimes(num.h.R, ResidualOf(x))))

NoSmoothers == num.h.pre_smoother = NoOp /\ num.h.post_smoother = NoOp

\* C8 as stated: the cycle changes x only through the smoothers that exist,
\* and leaves x unchanged when there is none.
C8_OnlySmoothersChangeX ==
    num.pc = "done" =>
        /\ num.x = Smoothed(num.h.post_smoother, num.h.post_relaxation,
                     Smoothed(num.h.pre_smoother, num.h.pre_relaxation, num.x_old))
        /\ (NoSmoothers => num.x = num.x_old)

\* C8 as amended: between the smoothers the cycle adds the coarse
\* correction P * R * (b - A * x); with no smoother the cycle leaves
\* x + P * R * (b - A * x), which is x only when that correction is zero.
C8_SmoothersAndCoarseCorrection ==
    num.pc = "done" =>
        /\ num.x = Smoothed(num.h.post_smoother, num.h.post_relaxation,
                     CoarseCorrected(
                       Smoothed(num.h.pre_smoother, num.h.pre_relaxation, num.x_old)))
        /\ (NoSmoothers => num.x = CoarseCorrected(num.x_old))
        /\ (NoSmoothers =>
              (num.x = num.x_old <=>
                 \A i \in 1..Len(num.x) :
                    MatTimes(num.h.P, MatTimes(num.h.R, ResidualOf(num.x_old)))[i] = 0))

\* C8's case: a cycle without smoothers has run and has changed x.
C8_Witness ==
    num.pc = "done" /\ NoSmoothers /\ num.x # num.x_old


(***************************************************************************)
(* The CUDA executor (cuda/base/executor.cpp) on a model of the CUDA       *)
(* runtime.  cuda holds the runtime: the build flag of the HIP platform,   *)
(* what cudaGetDeviceCount reports, the ambient current device, the bytes  *)
(* of the buffers, the copies enqueued on the streams and the number of    *)
(* live allocations.  An operation runs on a context c that starts as the  *)
(* runtime's state and collects the runtime calls the operation makes,     *)
(* each with the ambient device at the time of the call and the device     *)
(* the call is meant for.  A runtime call can fail: the call numbered      *)
(* c.fail does, and GKO_ASSERT_NO_CUDA_ERRORS throws, which c.err holds;   *)
(* every later step of the operation is then skipped.                      *)
(***************************************************************************)
Buffers == {"host", "device", "peer"}
ErrorCodes ==
    {"cudaSuccess", "cudaErrorNoDevice", "cudaErrorInsufficientDriver",
     "cudaErrorUnknown"}
Modes == {"device", "unified_global", "unified_host", "other"}
\* the call of an operation that fails: none (0) or the call of that number.
\* For the constructor: the PCI bus id, the first and the last attribute, the
\* cuBLAS handle, the cuSPARSE handle.
FailPoints == {0, 1, 2, 8, 9, 10}
\* The constructor's calls do not depend on the allocator: its failures are
\* injected with the allocator of mode device.
\* For an operation of at most two calls: the call that fails, and whether
\* the copies of a stream whose synchronization failed have happened.  A copy
\* of 0 bytes makes no call.
CopyFailures ==
    {<<0, FALSE>>, <<1, FALSE>>, <<2, FALSE>>, <<2, TRUE>>}

NoInfo ==
    [pci_bus_id |-> "unset", gpu_property |-> "unset",
     cublas_handle |-> "unset", cusparse_handle |-> "unset"]

Context(fail, flaky) ==
    [device |-> cuda.current_device, mem |-> cuda.mem,
     pending |-> cuda.pending,
     log |-> <<>>, err |-> "none", n |-> 0, fail |-> fail, flaky |-> flaky,
     ret |-> 0, info |-> NoInfo]

\* one call of the CUDA runtime or of a CUDA library under
\* GKO_ASSERT_NO_CUDA_ERRORS, meant for the device target: the call is
\* logged, and c.err is set when it is the call that fails
Rt(c, call, target) ==
    IF c.err # "none" THEN c
    ELSE LET called == [c EXCEPT !.n = @ + 1,
                                 !.log = Append(@, [call |-> call,
                                                    device |-> c.device,
                                                    target |-> target])]
         IN  IF called.n = c.fail THEN [called EXCEPT !.err = "CudaError"]
             ELSE called

GKO_NOT_SUPPORTED(c) == IF c.err # "none" THEN c ELSE [c EXCEPT !.err = "NotSupported"]

\* detail::cuda_scoped_device_id_guard g(device_id): the constructor switches
\* the ambient device to device_id ...
cuda_scoped_device_id_guard(c, device_id) ==
    IF c.err # "none" THEN c ELSE [c EXCEPT !.device = device_id]

\* ... and the destructor, on every way out of the block, restores the
\* ambient device the block was entered with (that of c)
end_of_guard(c, inside) == [inside EXCEPT !.device = c.device]

\* the bytes of the buffers after the copy cp has happened
CopyBytes(mem, cp) ==
    [mem EXCEPT ![cp.dest_ptr] =
        [i \in 1..BufLen |->
            IF i <= cp.num_bytes THEN mem[cp.src_ptr][i] ELSE @[i]]]

RECURSIVE Drain(_, _, _)
Drain(mem, pending, stream) ==
    IF pending = <<>> THEN mem
    ELSE Drain(IF Head(pending).stream = stream
               THEN CopyBytes(mem, Head(pending)) ELSE mem,
               Tail(pending), stream)

OtherStreams(pending, stream) ==
    SelectSeq(pending, LAMBDA cp : cp.stream # stream)

\* cudaMemcpyAsync and cudaMemcpyPeerAsync: the copy is enqueued on the stream
MemcpyAsync(c, call, this, num_bytes, src_ptr, dest_ptr) ==
    LET r == Rt(c, call, this.device_id) IN
    IF r.err # "none" THEN r
    ELSE [r EXCEPT !.pending =
             Append(@, [stream |-> this.device_id, num_bytes |-> num_bytes,
                        src_ptr |-> src_ptr, dest_ptr |-> dest_ptr])]

\* cudaStreamSynchronize(this->get_stream()): the copies enqueued on the
\* stream have happened when it returns; when it reports an error they may
\* or may not have happened
cudaStreamSynchronize(c, this) ==
    IF c.err # "none" THEN c
    ELSE LET r == Rt(c, "cudaStreamSynchronize", this.device_id)
             happened == r.err = "none" \/ c.flaky
         IN  [r EXCEPT !.mem = IF happened
                               THEN Drain(@, r.pending, this.device_id) ELSE @,
                       !.pending = OtherStreams(@, this.device_id)]

synchronize_unscoped(c, this) == cudaStreamSynchronize(c, this)

\* CudaExecutor::synchronize
synchronize(c, this) ==
    end_of_guard(c,
        cudaStreamSynchronize(
            cuda_scoped_device_id_guard(c, this.device_id), this))

\* if (num_bytes > 0) { guard; cudaMemcpy...Async on the stream of the
\* executor on; on->synchronize(); }
copy_and_synchronize(c, call, on, num_bytes, src_ptr, dest_ptr) ==
    IF num_bytes > 0
    THEN end_of_guard(c,
             synchronize(
                 MemcpyAsync(cuda_scoped_device_id_guard(c, on.device_id),
                             call, on, num_bytes, src_ptr, dest_ptr), on))
    ELSE c

\* OmpExecutor::raw_copy_to(const CudaExecutor* dest, ...)
raw_copy_to_cuda_from_omp(c, dest, num_bytes, src_ptr, dest_ptr) ==
    copy_and_synchronize(c, "cudaMemcpyAsync", dest, num_bytes, src_ptr, dest_ptr)

\* a copy to the host that returns without synchronizing the stream
raw_copy_to_omp_unsynchronized(c, this, num_bytes, src_ptr, dest_ptr) ==
    IF num_bytes > 0
    THEN end_of_guard(c,
             MemcpyAsync(cuda_scoped_device_id_guard(c, this.device_id),
                         "cudaMemcpyAsync", this, num_bytes, src_ptr, dest_ptr))
    ELSE c

\* CudaExecutor::raw_copy_to(const OmpExecutor*, ...)
raw_copy_to_omp(c, this, num_bytes, src_ptr, dest_ptr) ==
    copy_and_synchronize(c, "cudaMemcpyAsync", this, num_bytes, src_ptr, dest_ptr)

\* a copy to a HIP executor that is refused whatever the platform
raw_copy_to_hip_refused(c, this, num_bytes, src_ptr, dest_ptr) ==
    GKO_NOT_SUPPORTED(c)

\* CudaExecutor::raw_copy_to(const HipExecutor* dest, ...)
raw_copy_to_hip(c, this, num_bytes, src_ptr, dest_ptr) ==
    IF cuda.GINKGO_HIP_PLATFORM_NVCC = 1
    THEN copy_and_synchronize(c, "cudaMemcpyPeerAsync", this, num_bytes,
                              src_ptr, dest_ptr)
    ELSE GKO_NOT_SUPPORTED(c)

\* CudaExecutor::raw_copy_to(const DpcppExecutor* dest, ...)
raw_copy_to_dpcpp(c, this, num_bytes, src_ptr, dest_ptr) ==
    GKO_NOT_SUPPORTED(c)

\* a copy between devices that returns without synchronizing the stream
raw_copy_to_cuda_unsynchronized(c, this, num_bytes, src_ptr, dest_ptr) ==
    IF num_bytes > 0
    THEN end_of_guard(c,
             MemcpyAsync(cuda_scoped_device_id_guard(c, this.device_id),
                         "cudaMemcpyPeerAsync", this, num_bytes, src_ptr,
                         dest_ptr))
    ELSE c

\* CudaExecutor::raw_copy_to(const CudaExecutor* dest, ...)
raw_copy_to_cuda(c, this, num_bytes, src_ptr, dest_ptr) ==
    copy_and_synchronize(c, "cudaMemcpyPeerAsync", this, num_bytes,
                         src_ptr, dest_ptr)

\* CudaAllocator and CudaUnifiedAllocator: allocate and deallocate on the
\* ambient device; c.ret is the pointer allocate returns
allocate(c, alloc, target) ==
    LET r == Rt(c, IF alloc.kind = "CudaAllocator" THEN "cudaMalloc"
                   ELSE "cudaMallocManaged", target) IN
    IF r.err # "none" THEN r ELSE [r EXCEPT !.ret = 1]

deallocate(c, alloc, target) ==
    IF c.err # "none" THEN c
    ELSE [c EXCEPT !.log = Append(@, [call |-> "cudaFree", device |-> c.device,
                                      target |-> target])]

allocator_from_mode(device_id, mode) ==
    CASE mode = "device" ->
           [status |-> "ok", alloc |-> [kind |-> "CudaAllocator"]]
      [] mode = "unified_global" ->
           [status |-> "ok",
            alloc |-> [kind |-> "CudaUnifiedAllocator", device_id |-> device_id]]
      [] mode = "unified_host" ->
           [status |-> "ok",
            alloc |-> [kind |-> "CudaUnifiedAllocator", device_id |-> device_id]]
      [] OTHER ->
           [status |-> "NotSupported", alloc |-> [kind |-> "none"]]

\* CudaExecutor::raw_free
raw_free(c, this) ==
    end_of_guard(c,
        deallocate(cuda_scoped_device_id_guard(c, this.device_id),
                   this.alloc, this.device_id))

\* CudaExecutor::raw_alloc
raw_alloc(c, this) ==
    end_of_guard(c,
        allocate(cuda_scoped_device_id_guard(c, this.device_id),
                 this.alloc, this.device_id))

\* a count that throws whenever the runtime reports an error
get_num_devices_strict(c) ==
    IF c.err # "none" THEN c
    ELSE IF cuda.error_code # "cudaSuccess" THEN [c EXCEPT !.err = "CudaError"]
    ELSE [c EXCEPT !.ret = cuda.deviceCount]

\* CudaExecutor::get_num_devices: c.ret is what it returns
get_num_devices(c) ==
    IF c.err # "none" THEN c
    ELSE IF cuda.error_code = "cudaErrorNoDevice" THEN [c EXCEPT !.ret = 0]
    ELSE IF cuda.error_code # "cudaSuccess" THEN [c EXCEPT !.err = "CudaError"]
    ELSE [c EXCEPT !.ret = cuda.deviceCount]

\* a test of the device id against the count alone
device_id_below_count(counted, this) ==
    /\ counted.err = "none"
    /\ this.device_id < counted.ret

\* get_device_id() < get_num_devices() && get_device_id() >= 0, counted
\* being the context get_num_devices has returned in
device_id_in_range(counted, this) ==
    /\ counted.err = "none"
    /\ this.device_id < counted.ret
    /\ this.device_id >= 0

\* info with the field set unless a call has failed
Set(c, field) ==
    IF c.err # "none" THEN c ELSE [c EXCEPT !.info[field] = "set"]

\* CudaExecutor::populate_exec_info
populate_exec_info(c, this) ==
    LET counted == get_num_devices(c) IN
    IF device_id_in_range(counted, this)
    THEN end_of_guard(counted,
             Set(Rt(cuda_scoped_device_id_guard(counted, this.device_id),
                    "cudaDeviceGetPCIBusId", this.device_id), "pci_bus_id"))
    ELSE counted

\* the attributes set_gpu_property asks for, in its order
Attributes ==
    <<"ComputeCapabilityMajor", "ComputeCapabilityMinor", "MultiProcessorCount",
      "MaxThreadsPerBlock", "MaxBlockDimX", "MaxBlockDimY", "MaxBlockDimZ">>

RECURSIVE get_attributes(_, _, _)
get_attributes(c, this, attrs) ==
    IF attrs = <<>> THEN c
    ELSE get_attributes(Rt(c, "cudaDeviceGetAttribute", this.device_id),
                        this, Tail(attrs))

\* CudaExecutor::set_gpu_property
set_gpu_property(c, this) ==
    LET counted == get_num_devices(c) IN
    IF device_id_in_range(counted, this)
    THEN end_of_guard(counted,
             Set(get_attributes(
                     cuda_scoped_device_id_guard(counted, this.device_id),
                     this, Attributes), "gpu_property"))
    ELSE counted

\* CudaExecutor::init_handles
init_handles(c, this) ==
    LET counted == get_num_devices(c) IN
    IF device_id_in_range(counted, this)
    THEN LET g == cuda_scoped_device_id_guard(counted, this.device_id)
             blas == Set(Rt(g, "cublasCreate", this.device_id), "cublas_handle")
         IN  end_of_guard(counted,
                 Set(Rt(blas, "cusparseCreate", this.device_id),
                     "cusparse_handle"))
    ELSE counted

\* the deleters init_handles gives to the two handle managers
destroy_handles(c, this) ==
    LET blas == end_of_guard(c,
                    Rt(cuda_scoped_device_id_guard(c, this.device_id),
                       "cublasDestroy", this.device_id))
    IN  end_of_guard(blas,
            Rt(cuda_scoped_device_id_guard(blas, this.device_id),
               "cusparseDestroy", this.device_id))

\* the constructor of CudaExecutor
CudaExecutor(c, this) ==
    init_handles(set_gpu_property(populate_exec_info(c, this), this), this)

\* what an operation leaves: the runtime's state, and in last the operation,
\* its arguments, how it ended, what it returned and the calls it made
Commit(op, args, c) ==
    /\ cuda' = [cuda EXCEPT !.current_device = c.device, !.mem = c.mem,
                            !.pending = c.pending]
    /\ last' = [op |-> op, args |-> args,
                result |-> IF c.err = "none" THEN "ok" ELSE c.err,
                ret |-> c.ret, log |-> c.log, info |-> c.info]
    /\ UNCHANGED <<genVars, applyVars, numVars, kernVars>>

\* the device ids an executor can work on
ValidDevices ==
    IF cuda.error_code = "cudaSuccess" THEN 0..(cuda.deviceCount - 1) ELSE {}

DeviceExec(device_id) ==
    [device_id |-> device_id, alloc |-> allocator_from_mode(device_id, "device").alloc]

CopyArgs(device_id, num_bytes, src_ptr, dest_ptr) ==
    [device_id |-> device_id, num_bytes |-> num_bytes,
     src_ptr |-> src_ptr, dest_ptr |-> dest_ptr]

InitCuda ==
    /\ \E flag \in 0..1, code \in ErrorCodes, count \in {0, MaxDevices},
          dev \in 0..(MaxDevices - 1) :
          /\ (code = "cudaSuccess") = (count > 0)
          /\ dev < count \/ dev = 0
          /\ cuda = [GINKGO_HIP_PLATFORM_NVCC |-> flag, error_code |-> code,
                     deviceCount |-> count, current_device |-> dev,
                     mem |-> [p \in Buffers |->
                                [i \in 1..BufLen |-> IF p = "host" THEN i ELSE 0]],
                     pending |-> <<>>]
    /\ last = [op |-> "none"]
    /\ params = [max_levels |-> 1]
    /\ mg = [status |-> "ok"]
    /\ ApplyIdle
    /\ NumIdle
    /\ KernIdle

Create ==
    \E device_id \in -1..MaxDevices, mode \in Modes :
    \E fail \in IF device_id \in ValidDevices /\ mode = "device"
                THEN FailPoints ELSE {0} :
       LET a == allocator_from_mode(device_id, mode)
           this == [device_id |-> device_id, alloc |-> a.alloc]
       IN  Commit("create", [device_id |-> device_id, mode |-> mode,
                             alloc |-> a.alloc],
                  IF a.status = "ok"
                  THEN CudaExecutor(Context(fail, FALSE), this)
                  ELSE GKO_NOT_SUPPORTED(Context(fail, FALSE)))

DestroyHandles ==
    \E device_id \in ValidDevices, fail \in 0..2 :
       Commit("destroy_handles", [device_id |-> device_id],
              destroy_handles(Context(fail, FALSE), DeviceExec(device_id)))

GetNumDevices ==
    Commit("get_num_devices", [device_id |-> 0],
           get_num_devices(Context(0, FALSE)))

RawAlloc ==
    /\ \E device_id \in ValidDevices, mode \in Modes \ {"other"},
          fail \in 0..1 :
          LET alloc == allocator_from_mode(device_id, mode).alloc IN
          Commit("raw_alloc", [device_id |-> device_id, alloc |-> alloc],
                 raw_alloc(Context(fail, FALSE),
                           [device_id |-> device_id, alloc |-> alloc]))

RawFree ==
    /\ \E device_id \in ValidDevices, mode \in Modes \ {"other"} :
          LET alloc == allocator_from_mode(device_id, mode).alloc IN
          Commit("raw_free", [device_id |-> device_id, alloc |-> alloc],
                 raw_free(Context(0, FALSE),
                          [device_id |-> device_id, alloc |-> alloc]))

Synchronize ==
    \E device_id \in ValidDevices, f \in CopyFailures :
       Commit("synchronize", [device_id |-> device_id],
              synchronize(Context(f[1], f[2]), DeviceExec(device_id)))

CopyFromOmp ==
    \E device_id \in ValidDevices, num_bytes \in 0..BufLen :
    \E f \in IF num_bytes = 0 THEN {<<0, FALSE>>} ELSE CopyFailures :
       Commit("raw_copy_to_cuda_from_omp",
              CopyArgs(device_id, num_bytes, "host", "device"),
              raw_copy_to_cuda_from_omp(Context(f[1], f[2]),
                  DeviceExec(device_id), num_bytes, "host", "device"))

CopyToOmp ==
    \E device_id \in ValidDevices, num_bytes \in 0..BufLen :
    \E f \in IF num_bytes = 0 THEN {<<0, FALSE>>} ELSE CopyFailures :
       Commit("raw_copy_to_omp",
              CopyArgs(device_id, num_bytes, "device", "host"),
              raw_copy_to_omp(Context(f[1], f[2]),
                  DeviceExec(device_id), num_bytes, "device", "host"))

CopyToCuda ==
    \E device_id \in ValidDevices, num_bytes \in 0..BufLen :
    \E f \in IF num_bytes = 0 THEN {<<0, FALSE>>} ELSE CopyFailures :
       Commit("raw_copy_to_cuda",
              CopyArgs(device_id, num_bytes, "device", "peer"),
              raw_copy_to_cuda(Context(f[1], f[2]),
                  DeviceExec(device_id), num_bytes, "device", "peer"))

CopyToHip ==
    \E device_id \in ValidDevices, num_bytes \in 0..BufLen :
    \E f \in IF num_bytes = 0 THEN {<<0, FALSE>>} ELSE CopyFailures :
       Commit("raw_copy_to_hip",
              CopyArgs(device_id, num_bytes, "device", "peer"),
              raw_copy_to_hip(Context(f[1], f[2]),
                  DeviceExec(device_id), num_bytes, "device", "peer"))

CopyToDpcpp ==
    \E device_id \in ValidDevices, num_bytes \in 0..BufLen :
    \E f \in IF num_bytes = 0 THEN {<<0, FALSE>>} ELSE CopyFailures :
       Commit("raw_copy_to_dpcpp",
              CopyArgs(device_id, num_bytes, "device", "peer"),
              raw_copy_to_dpcpp(Context(f[1], f[2]),
                  DeviceExec(device_id), num_bytes, "device", "peer"))

NextCuda ==
    \/ Create
    \/ DestroyHandles
    \/ GetNumDevices
    \/ RawAlloc
    \/ RawFree
    \/ Synchronize
    \/ CopyFromOmp
    \/ CopyToOmp
    \/ CopyToCuda
    \/ CopyToHip
    \/ CopyToDpcpp

SpecCuda == InitCuda /\ [][NextCuda]_vars

(***************************************************************************)
(* Claims about the CUDA executor, checked under SpecCuda.                 *)
(***************************************************************************)
OtherBackendCopies == {"raw_copy_to_hip", "raw_copy_to_dpcpp"}
SameBackendCopies ==
    {"raw_copy_to_omp", "raw_copy_to_cuda_from_omp", "raw_copy_to_cuda"}
Copies == OtherBackendCopies \cup SameBackendCopies

\* the copy last' describes has happened in this step and nothing else has
\* changed in the buffers
Copied ==
    cuda'.mem = [cuda.mem EXCEPT ![last'.args.dest_ptr] =
                   [i \in 1..BufLen |->
                       IF i <= last'.args.num_bytes
                       THEN cuda.mem[last'.args.src_ptr][i] ELSE @[i]]]

\* C9 as stated: a copy from a CUDA executor to a HIP or a DPC++ executor
\* ends with NotSupported, a copy between CUDA executors and the host never.
C9_OtherBackendNotSupported ==
    /\ last.op \in OtherBackendCopies => last.result = "NotSupported"
    /\ last.op \in SameBackendCopies => last.result # "NotSupported"

C9_State ==
    /\ last.op = "raw_copy_to_dpcpp" => last.result = "NotSupported"
    /\ last.op = "raw_copy_to_hip" =>
          (last.result = "NotSupported") = (cuda.GINKGO_HIP_PLATFORM_NVCC # 1)
    /\ last.op \in Copies /\ last.result = "NotSupported" => last.log = <<>>
    /\ last.op \in Copies /\ last.result # "NotSupported" =>
          /\ last.result \in {"ok", "CudaError"}
          /\ last.args.num_bytes = 0 => last.result = "ok" /\ last.log = <<>>
          /\ last.result = "ok" /\ last.args.num_bytes > 0 =>
                /\ Len(last.log) = 2
                /\ last.log[2].call = "cudaStreamSynchronize"

C9_Step ==
    last'.op \in Copies =>
        /\ last'.result = "NotSupported" => cuda'.mem = cuda.mem
        /\ last'.result = "ok" => Copied

\* C9 as amended: a copy from a CUDA executor to a DPC++ executor ends with
\* NotSupported for every byte count, and so does a copy to a HIP executor
\* unless GINKGO_HIP_PLATFORM_NVCC is 1; a copy that ends with NotSupported
\* makes no runtime call and changes no buffer.  With
\* GINKGO_HIP_PLATFORM_NVCC = 1 the copy to a HIP executor is a peer copy
\* like the one between CUDA executors.  Every copy that is not refused
\* ends well when the byte count is 0 (without any runtime call) and
\* otherwise ends well, with the bytes copied, unless the CUDA runtime
\* reports an error.
C9_NotSupportedByBuild == [](C9_State) /\ [][C9_Step]_vars

\* C9's case: a build for the NVCC platform has copied bytes to a HIP
\* executor.
C9_Witness ==
    /\ last.op = "raw_copy_to_hip"
    /\ cuda.GINKGO_HIP_PLATFORM_NVCC = 1
    /\ last.result = "ok"
    /\ last.args.num_bytes > 0
    /\ cuda.mem["peer"][1] # 0

\* every call of the last operation that is meant for a device was made with
\* that device as the ambient one
CallsScoped ==
    last.op # "none" =>
        \A i \in 1..Len(last.log) : last.log[i].device = last.log[i].target

\* C10: every runtime call an executor operation makes for a device is made
\* with that device as the ambient current device, and no operation, whether
\* it returns or throws, leaves the ambient current device changed.
C10_DeviceScoped ==
    [](CallsScoped) /\ [][cuda'.current_device = cuda.current_device]_vars

\* C10's case: a copy to the host from an executor whose device is not the
\* ambient one has thrown in the synchronize it calls.
C10_Witness ==
    /\ last.op = "raw_copy_to_omp"
    /\ last.args.device_id # cuda.current_device
    /\ last.result = "CudaError"
    /\ Len(last.log) = 2
    /\ last.log[2].call = "cudaStreamSynchronize"
    /\ last.log[2].device = last.args.device_id

(***************************************************************************)
(* A round trip: memory is allocated on an executor, num_bytes bytes of a  *)
(* host buffer are copied to it and copied back into a second host buffer. *)
(* last holds the step the round trip is at.                               *)
(***************************************************************************)
ByteValues == {0, 1, 2}
RoundBuffers == {"host", "device", "back"}

\* the bytes of a buffer nothing has been copied to
Junk == [i \in 1..BufLen |-> 0 - i]

InitRound ==
    /\ \E flag \in 0..1, dev \in 0..(MaxDevices - 1),
          data \in [1..BufLen -> ByteValues] :
          cuda = [GINKGO_HIP_PLATFORM_NVCC |-> flag,
                  error_code |-> "cudaSuccess",
                  deviceCount |-> MaxDevices, current_device |-> dev,
                  mem |-> [p \in RoundBuffers |->
                             IF p = "host" THEN data ELSE Junk],
                  pending |-> <<>>]
    /\ last = [op |-> "none"]
    /\ params = [max_levels |-> 1]
    /\ mg = [status |-> "ok"]
    /\ ApplyIdle
    /\ NumIdle
    /\ KernIdle

\* gko::array<int> data{exec, ...}: exec->alloc ...
RoundAlloc ==
    /\ last.op = "none"
    /\ RawAlloc

\* ... and the copy of the bytes from the host, by the executor that allocated
RoundUpload ==
    /\ last.op = "raw_alloc"
    /\ last.result = "ok"
    /\ \E num_bytes \in 0..BufLen :
       \E f \in IF num_bytes = 0 THEN {<<0, FALSE>>} ELSE CopyFailures :
          Commit("raw_copy_to_cuda_from_omp",
                 [device_id |-> last.args.device_id, alloc |-> last.args.alloc,
                  num_bytes |-> num_bytes,
                  src_ptr |-> "host", dest_ptr |-> "device"],
                 raw_copy_to_cuda_from_omp(Context(f[1], f[2]), last.args,
                     num_bytes, "host", "device"))

\* the copy of the same bytes back to the host
RoundDownload ==
    /\ last.op = "raw_copy_to_cuda_from_omp"
    /\ last.result = "ok"
    /\ \E f \in IF last.args.num_bytes = 0 THEN {<<0, FALSE>>}
                ELSE CopyFailures :
          Commit("raw_copy_to_omp",
                 [last.args EXCEPT !.src_ptr = "device", !.dest_ptr = "back"],
                 raw_copy_to_omp(Context(f[1], f[2]), last.args,
                     last.args.num_bytes, "device", "back"))

NextRound ==
    \/ RoundAlloc
    \/ RoundUpload
    \/ RoundDownload

SpecRound == InitRound /\ [][NextRound]_vars

(***************************************************************************)
(* Claims about the round trip, checked under SpecRound.                   *)
(***************************************************************************)
RoundTripDone == last.op = "raw_copy_to_omp" /\ last.result = "ok"

\* C11: when memory allocated in any mode has received num_bytes bytes of a
\* host buffer and these have been copied back to the host, the bytes read
\* back are the original ones, for every content and every byte count from
\* 0 on; the original buffer is as it was and no byte beyond num_bytes has
\* been written.
C11_RoundTrip ==
    RoundTripDone =>
        /\ \A i \in 1..BufLen :
              cuda.mem["back"][i] =
                 IF i <= last.args.num_bytes THEN cuda.mem["host"][i]
                 ELSE Junk[i]
        /\ \A i \in 1..BufLen : cuda.mem["host"][i] \in ByteValues
        /\ cuda.pending = <<>>

\* C11's case: a round trip of all the bytes of a buffer that does not hold
\* zeros, on memory of a unified allocator.
C11_Witness ==
    /\ RoundTripDone
    /\ last.args.num_bytes = BufLen
    /\ last.args.alloc.kind = "CudaUnifiedAllocator"
    /\ cuda.mem["back"][1] = 2
    /\ last.args.device_id # cuda.current_device

(***************************************************************************)
(* Claims about the creation of a CUDA executor, checked under SpecCuda.   *)
(***************************************************************************)
Created == last.op = "create" /\ last.args.mode # "other"

\* C12 as stated: create fails with NotSupported for a mode that is none of
\* the three, and gives each of the three modes an allocator that no other
\* mode gets.
C12_ModeSelectsPolicy ==
    last.op = "create" =>
        /\ last.args.mode = "other" =>
              /\ last.result = "NotSupported"
              /\ last.log = <<>>
              /\ last.info = NoInfo
        /\ last.args.mode # "other" =>
              /\ last.result # "NotSupported"
              /\ \A mode \in Modes \ {"other", last.args.mode} :
                    allocator_from_mode(last.args.device_id, mode).alloc
                       # last.args.alloc

\* what cudaGetDeviceCount reports is a count or that there is no device
CountKnown == cuda.error_code \in {"cudaSuccess", "cudaErrorNoDevice"}

\* C13: get_num_devices returns 0 when the runtime reports
\* cudaErrorNoDevice, throws for every other error code, and returns the
\* count the runtime reports otherwise.
C13_NumDevices ==
    last.op = "get_num_devices" =>
        /\ cuda.error_code = "cudaErrorNoDevice" =>
              last.result = "ok" /\ last.ret = 0
        /\ cuda.error_code = "cudaSuccess" =>
              last.result = "ok" /\ last.ret = cuda.deviceCount
        /\ ~CountKnown => last.result = "CudaError"

\* C13's case: the count has been asked of a runtime without a device.
C13_Witness ==
    /\ last.op = "get_num_devices"
    /\ cuda.error_code = "cudaErrorNoDevice"
    /\ last.result = "ok"

\* the device id of the executor created last is not one of a device
InvalidDevice == Created /\ last.args.device_id \notin ValidDevices

\* C14 as stated: with an invalid device id the constructor's three steps
\* make no device call, set nothing and raise no error.
C14_InvalidDeviceIsQuiet ==
    InvalidDevice =>
        /\ last.result = "ok"
        /\ last.log = <<>>
        /\ last.info = NoInfo

C14_State ==
    InvalidDevice =>
        /\ last.log = <<>>
        /\ last.info = NoInfo
        /\ last.result = IF CountKnown THEN "ok" ELSE "CudaError"

C14_Step ==
    last'.op = "create" => cuda'.current_device = cuda.current_device

\* C14 as amended: for an executor whose device id is negative or not below
\* the device count, populate_exec_info, set_gpu_property and init_handles
\* make no device call, leave the executor's info and handles unset and the
\* ambient device unchanged; they raise no error when the device-count query
\* succeeds or reports that there is no device, and raise that query's error
\* otherwise (also for a negative id, since the count is asked first).
C14_InvalidDeviceSkipsQueries == [](C14_State) /\ [][C14_Step]_vars

\* C14's case: an executor with a negative device id has been created on a
\* runtime that has devices.
C14_Witness ==
    /\ InvalidDevice
    /\ last.args.device_id < 0
    /\ cuda.error_code = "cudaSuccess"
    /\ last.result = "ok"

(***************************************************************************)
(* More claims about generate, checked under SpecGen.                      *)
(***************************************************************************)
\* the row count of the operator the loop of generate has ended on
CurrentRows ==
    IF Levels = 0 THEN params.system_rows
    ELSE mg.rstr_prlg_list[Levels].coarse_rows

\* the loop asks the selector for one more level, and the index it returns
\* is past the end of the list of coarsening factories
SelectorOutOfBounds ==
    /\ Levels < params.max_levels
    /\ CurrentRows > params.min_coarse_rows
    /\ SelectorIndex(Levels) >= Len(params.rstr_prlg)

\* C15: every committed level was generated by the factory at the index the
\* selector returned, an index within the list; when the selector returns
\* an index past the end of the list for the next level, generate fails
\* with an out-of-bounds error, and no coarsening operator, smoother or
\* relaxation of that level and no coarsest solver exists.
C15_SelectorOutOfBounds ==
    Generated =>
        /\ \A L \in 1..Levels :
              /\ SelectorIndex(L - 1) < Len(params.rstr_prlg)
              /\ mg.rstr_prlg_list[L].factory = SelectorIndex(L - 1)
        /\ SelectorOutOfBounds =>
              /\ mg.status = "OutOfBoundsError"
              /\ mg.coarsest_solver = NoSolver
              /\ \A which \in {"pre", "mid", "post"} :
                    /\ Len(SmoothersOf(which)) <= Levels
                    /\ Len(RelaxationsOf(which)) <= Levels

\* C15's case: after a level whose smoothers were all generated the selector
\* returned an index past the end of the list.
C15_Witness ==
    /\ Generated
    /\ Levels >= 1
    /\ SelectorOutOfBounds
    /\ Len(mg.pre_smoother_list) = Levels
    /\ Len(mg.pre_relaxation_list) = Levels

(***************************************************************************)
(* SpecCoarsest: generate with every kind of coarsest-solver list (empty,  *)
(* with and without null entries) and every index the solver selector can  *)
(* return for it, on hierarchies without smoothers.                        *)
(***************************************************************************)
CoarsestSolverLists ==
    {FactoryList("coarsest", n, nulls) :
        n \in 0..MaxList, nulls \in {{}, {0}, {1}}}

CoarsestParams ==
    [max_levels : 0..MaxLevels,
     min_coarse_rows : 0..1,
     system_rows : 1..MaxRows,
     rstr_prlg : RstrPrlgLists,
     rstr_prlg_index : [0..(MaxLevels - 1) -> 0..2],
     pre_smoother : {<<>>}, pre_relaxation : {<<>>},
     mid_smoother : {<<>>}, mid_relaxation : {<<>>},
     post_smoother : {<<>>}, post_relaxation : {<<>>},
     mid_case : {"mid"},
     post_uses_pre : {FALSE},
     coarsest_solver : CoarsestSolverLists,
     solver_index : 0..MaxList]

InitCoarsest ==
    /\ params \in CoarsestParams
    /\ mg = NewMultigrid(params)
    /\ ApplyIdle
    /\ NumIdle
    /\ KernIdle
    /\ CudaIdle

SpecCoarsest == InitCoarsest /\ [][NextGen]_vars

(***************************************************************************)
(* Claims about the coarsest solver, checked under SpecCoarsest.           *)
(***************************************************************************)
SolverIndexInBounds == params.solver_index < Len(params.coarsest_solver)

\* the loop of generate was left because the candidate level did not reduce
\* the row count
StoppedWithoutReduction ==
    /\ Levels < params.max_levels
    /\ CurrentRows > params.min_coarse_rows
    /\ SelectorIndex(Levels) < Len(params.rstr_prlg)
    /\ CoarseRows(params.rstr_prlg[SelectorIndex(Levels) + 1], CurrentRows)
          = CurrentRows

\* C16: after a successful generate there is a last committed level and the
\* coarsest solver is for its coarse operator: the identity of that
\* operator's row count when the list of coarsest solvers is empty or the
\* selected entry is null, and otherwise what the selected factory generates
\* from that operator.  An index of the solver selector past the end of a
\* list that is not empty makes generate fail.
C16_CoarsestSolver ==
    Generated =>
        /\ mg.status = "ok" =>
              /\ Levels >= 1
              /\ Len(params.coarsest_solver) = 0 =>
                    mg.coarsest_solver =
                       [kind |-> "identity",
                        size |-> mg.rstr_prlg_list[Levels].coarse_rows]
              /\ Len(params.coarsest_solver) > 0 =>
                    /\ SolverIndexInBounds
                    /\ LET solver ==
                             params.coarsest_solver[params.solver_index + 1]
                       IN  mg.coarsest_solver =
                             IF solver = NullF
                             THEN [kind |-> "identity",
                                   size |-> mg.rstr_prlg_list[Levels].coarse_rows]
                             ELSE [kind |-> "generated", factory |-> solver,
                                   matrix |-> mg.rstr_prlg_list[Levels].coarse_rows]
        /\ (Len(params.coarsest_solver) > 0 /\ ~SolverIndexInBounds) =>
              /\ mg.status # "ok"
              /\ mg.coarsest_solver = NoSolver
        /\ (Levels >= 1 /\ Len(params.coarsest_solver) > 0
            /\ ~SolverIndexInBounds /\ ~SelectorOutOfBounds) =>
              mg.status = "OutOfBoundsError"

\* C16's case: the loop stopped on a candidate level that did not reduce the
\* row count, and a factory generated the coarsest solver.
C16_Witness ==
    /\ mg.status = "ok"
    /\ StoppedWithoutReduction
    /\ mg.coarsest_solver.kind = "generated"
    /\ params.solver_index > 0

(***************************************************************************)
(* Claims about the shared smoother lists, checked under SpecGen.          *)
(***************************************************************************)
\* generate has left its loop without an exception
LoopLeft == mg.status \in {"ok", "ValueMismatch"}

\* no smoother of the list was generated by a factory of the named list
NotFrom(smoothers, name) ==
    \A i \in 1..Len(smoothers) : smoothers[i].factory.list # name

\* the list was resolved, level by level, from the named factory list and
\* relaxation array
ResolvedFrom(which) ==
    /\ Len(SmoothersOf(which)) = Levels
    /\ Len(RelaxationsOf(which)) = Levels
    /\ \A L \in 1..Levels :
          /\ SmoothersOf(which)[L] =
                ExpectedSmoother(FactoriesOf(which), SelectorIndex(L - 1),
                                 mg.rstr_prlg_list[L].fine_rows)
          /\ RelaxationsOf(which)[L] =
                ExpectedRelaxation(ArrayOf(which), SelectorIndex(L - 1))

\* C17: once generate has left its loop, the post lists are the pre lists
\* when post_uses_pre is set, and the mid lists are the pre lists for
\* mid_case = pre and the post lists, as they are then, for mid_case = post;
\* a list that is shared is never resolved from its own factory list,
\* whatever that list holds; after a successful generate the mid lists for
\* mid_case = mid and the post lists without post_uses_pre are resolved
\* from their own factory lists.
C17_SharedLists ==
    Generated =>
        /\ params.post_uses_pre => NotFrom(mg.post_smoother_list, "post")
        /\ params.mid_case # "mid" => NotFrom(mg.mid_smoother_list, "mid")
        /\ LoopLeft =>
              /\ params.post_uses_pre =>
                    /\ mg.post_smoother_list = mg.pre_smoother_list
                    /\ mg.post_relaxation_list = mg.pre_relaxation_list
              /\ params.mid_case = "pre" =>
                    /\ mg.mid_smoother_list = mg.pre_smoother_list
                    /\ mg.mid_relaxation_list = mg.pre_relaxation_list
              /\ params.mid_case = "post" =>
                    /\ mg.mid_smoother_list = mg.post_smoother_list
                    /\ mg.mid_relaxation_list = mg.post_relaxation_list
        /\ mg.status = "ok" =>
              /\ ResolvedFrom("pre")
              /\ params.mid_case = "mid" => ResolvedFrom("mid")
              /\ ~params.post_uses_pre => ResolvedFrom("post")

\* C17's case: post uses pre and mid uses post, so that all three lists are
\* the pre lists, with mid and post factory lists that are not empty.
C17_Witness ==
    /\ mg.status = "ok"
    /\ params.post_uses_pre
    /\ params.mid_case = "post"
    /\ Levels >= 2
    /\ Len(params.mid_smoother) > 0
    /\ Len(params.post_smoother) > 0
    /\ mg.mid_smoother_list[1].factory.list = "pre"

(***************************************************************************)
(* Claims about the bounds of the hierarchy, checked under SpecGen.        *)
(***************************************************************************)
\* one of the two bounds of the loop fails for the operator the loop has
\* reached
BoundFails ==
    \/ Levels >= params.max_levels
    \/ CurrentRows <= params.min_coarse_rows

\* C18: after a successful generate there are at most max_levels levels and
\* every committed level was generated from an operator with more than
\* min_coarse_rows rows, the first from the system operator and each later
\* one from the coarse operator of the level before it; no level follows
\* the first one at which a bound fails, and the loop has stopped because a
\* bound fails or because the next candidate does not reduce the row count.
C18_LevelBounds ==
    mg.status = "ok" =>
        /\ Levels <= params.max_levels
        /\ \A L \in 1..Levels :
              /\ mg.rstr_prlg_list[L].fine_rows > params.min_coarse_rows
              /\ mg.rstr_prlg_list[L].fine_rows =
                    IF L = 1 THEN params.system_rows
                    ELSE mg.rstr_prlg_list[L - 1].coarse_rows
        /\ BoundFails \/ StoppedWithoutReduction

\* C18's cases: generate stops at the level bound with an operator that
\* could be coarsened further, and it stops at the row bound below the
\* level bound.
C18_Witness ==
    /\ mg.status = "ok"
    /\ Levels = params.max_levels
    /\ Levels = MaxLevels
    /\ CurrentRows > params.min_coarse_rows
    /\ SelectorIndex(Levels - 1) < Len(params.rstr_prlg)

C18_WitnessRows ==
    /\ mg.status = "ok"
    /\ Levels < params.max_levels
    /\ CurrentRows <= params.min_coarse_rows

(***************************************************************************)
(* The scaled apply, apply_impl(alpha, b, beta, x), computed with numbers  *)
(* on the hierarchies of the numeric V-cycle.  The stopping criterion of   *)
(* the simple apply is the iteration at which it reports stop.             *)
(***************************************************************************)
\* lines 449-476: the loop of apply_impl(b, x) from iteration it on, with
\* r the residual of x; returns x when the criterion stops
RECURSIVE apply_loop(_, _, _, _, _, _)
apply_loop(h, b, x, r, it, stop_at) ==
    IF it >= stop_at THEN x
    ELSE LET c == run_cycle_v(h, b, x, r) IN
         apply_loop(h, b, c.x, Residual(h.A, b, c.x), it + 1, stop_at)

\* lines 437-477: apply_impl(b, x), the x it leaves
apply_impl(h, b, x, stop_at) ==
    apply_loop(h, b, x, Residual(h.A, b, x), 0, stop_at)

\* dense_x->clone(), line 487
clone(x) == SubSeq(x, 1, Len(x))

\* dense_x->scale(beta), line 489
scale(beta, x) ==
    LET y == [i \in 1..Len(x) |-> beta * x[i]] IN SubSeq(y, 1, Len(x))

\* an add_scaled that overwrites x with alpha * y
add_scaled_overwriting(x, alpha, y) ==
    LET z == [i \in 1..Len(x) |-> alpha * y[i]] IN SubSeq(z, 1, Len(x))

\* dense_x->add_scaled(alpha, x_clone), line 490
add_scaled(x, alpha, y) ==
    LET z == [i \in 1..Len(x) |-> x[i] + alpha * y[i]] IN SubSeq(z, 1, Len(x))

\* lines 481-491: apply_impl(alpha, b, beta, x), the x it leaves
apply_impl_scaled(h, alpha, b, beta, x, stop_at) ==
    LET x_clone == clone(x)
        y == apply_impl(h, b, x_clone, stop_at)
    IN  add_scaled(scale(beta, x), alpha, y)

\* the values of the 1 x 1 operators alpha and beta
Scalars == {-1, 0, 2}

\* the hierarchies of the scaled apply: every system matrix and pair of
\* smoothers, with the restriction and prolongation that sum and copy
ScaledHierarchies ==
    {h \in NumHierarchies : h.R = <<<<1, 1>>>> /\ h.P = <<<<1>>, <<1>>>>}

\* a call apply(alpha, b, beta, x) on a generated solver; args keeps the
\* operands as they were passed
InitScaled ==
    /\ \E h \in ScaledHierarchies, b \in NumVectors, x \in NumVectors,
          alpha \in Scalars, beta \in Scalars, stop_at \in 0..MaxIter :
          num = [pc |-> "call", h |-> h, stop_at |-> stop_at,
                 alpha |-> alpha, b |-> b, beta |-> beta, x |-> x,
                 args |-> [alpha |-> alpha, b |-> b, beta |-> beta, x |-> x]]
    /\ params = [max_levels |-> 1]
    /\ mg = [status |-> "ok"]
    /\ ApplyIdle
    /\ CudaIdle
    /\ KernIdle

\* lines 481-491
ApplyImplScaled ==
    /\ num.pc = "call"
    /\ num' = [num EXCEPT !.pc = "returned",
                          !.x = apply_impl_scaled(num.h, num.alpha, num.b,
                                                  num.beta, num.x, num.stop_at)]
    /\ UNCHANGED <<genVars, applyVars, cudaVars, kernVars>>

NextScaled == ApplyImplScaled

SpecScaled == InitScaled /\ [][NextScaled]_vars

(***************************************************************************)
(* Claims about the scaled apply, checked under SpecScaled.                *)
(***************************************************************************)
\* what apply(b, .) leaves when started from the x that was passed
SimpleApplyFromOld ==
    apply_impl(num.h, num.args.b, num.args.x, num.stop_at)

\* C19: apply(alpha, b, beta, x) leaves x = beta * x_old + alpha * y, y
\* being what apply(b, .) leaves when started from x_old, and leaves b,
\* alpha and beta as they were passed.
C19_ScaledApply ==
    num.pc = "returned" =>
        /\ num.x = VecPlus(VecScale(num.args.beta, num.args.x),
                           VecScale(num.args.alpha, SimpleApplyFromOld))
        /\ num.b = num.args.b
        /\ num.alpha = num.args.alpha
        /\ num.beta = num.args.beta

\* C19's case: a scaled apply has returned whose simple apply ran cycles
\* and moved away from a guess that is not zero, with alpha and beta that
\* are neither 0 nor 1.
C19_Witness ==
    /\ num.pc = "returned"
    /\ num.stop_at >= 2
    /\ num.args.alpha = 2
    /\ num.args.beta = -1
    /\ num.args.x # <<0, 0>>
    /\ SimpleApplyFromOld # num.args.x
    /\ num.x # SimpleApplyFromOld

(***************************************************************************)
(* Claims about the residuals of a cycle, checked under SpecCycle.  trace  *)
(* holds the operations of apply_impl and run_cycle since the residual of  *)
(* level 0 was last computed by apply_impl.                                *)
(***************************************************************************)
\* the operations that read the residual of their level
ResidualConsumers ==
    {"criterion", "pre_smooth", "mid_smooth", "post_smooth", "restrict"}

\* the b of an activation at the level
BVecOf(level) == IF level = 0 THEN B ELSE Vec("g", level - 1)

\* the vectors an operation of the trace writes, the residual apart
WrittenBy(ev) ==
    IF ev.op \in {"pre_smooth", "mid_smooth", "post_smooth", "prolong",
                  "coarsest", "fill_zero", "restrict", "kcycle_step_2"}
    THEN {ev.vec}
    ELSE IF ev.op = "kcycle_step_1"
    THEN {Vec("e", ev.level), Vec("g", ev.level),
          Vec("d", ev.level \div solve.k_base)}
    ELSE {}

\* the residual read by operation k of the trace is b - A * x of its level:
\* it was computed at that level, from the x the operation works on, and
\* neither that x nor the b of the level was written since
ResidualCurrent(k) ==
    LET level == trace[k].level
        computed == {j \in 1..(k - 1) :
                        trace[j].op = "residual" /\ trace[j].level = level}
    IN  /\ computed # {}
        /\ LET k0 == CHOOSE j \in computed : \A h \in computed : h <= j IN
           /\ \A j \in (k0 + 1)..(k - 1) :
                 WrittenBy(trace[j]) \cap {trace[k0].vec, BVecOf(level)} = {}
           /\ trace[k].op \in {"pre_smooth", "mid_smooth", "post_smooth"} =>
                 trace[k].vec = trace[k0].vec

\* C21: every residual that is read, by the stopping criterion, by a
\* smoother or by restrict_apply, is b - A * x for the b, the x and the
\* operator of its level at that moment.
C21_ResidualCurrent ==
    \A k \in 1..Len(trace) :
        trace[k].op \in ResidualConsumers => ResidualCurrent(k)

\* C21's case: a W-cycle over two levels has run to its end with pre-, mid-
\* and post-smoothers, the deeper level being entered twice.
C21_Witness ==
    /\ apc = "cycle" /\ stack = <<>>
    /\ solve.cycle = "w" /\ total_level = 2
    /\ \E k \in 1..Len(trace) : trace[k].op = "pre_smooth" /\ trace[k].level = 1
    /\ \E k \in 1..Len(trace) : trace[k].op = "mid_smooth" /\ trace[k].level = 1
    /\ \E k \in 1..Len(trace) : trace[k].op = "post_smooth" /\ trace[k].level = 0

(***************************************************************************)
(* Claims about the levels of a K-cycle, checked under SpecCycle.          *)
(***************************************************************************)
\* the Krylov steps the trace records
KrylovSteps == {"kcycle_step_1", "kcycle_check_stop", "kcycle_step_2"}

\* C22: in a K-cycle the Krylov correction runs only in activations at a
\* level that is a multiple of kcycle_base; an activation at any other
\* level makes one sub-call and no Krylov step, as in a V-cycle; every
\* recursive sub-call, the one of the second Krylov step included, has the
\* K-cycle type of its caller.
C22_KCycleLevels ==
    /\ \A f \in Frames :
          IsK(f.cycle) =>
            /\ (f.step1 \/ f.step2 \/ f.pc \in {"kbranch", "kstep2"}) => KActive(f)
            /\ ~KActive(f) =>
                  /\ Len(f.calls) <= 1
                  /\ f.pc = "post" => f.calls = <<SubCall(f, f.cycle, EVec(f))>>
            /\ \A i \in 1..Len(f.calls) :
                  f.calls[i].kind = "run_cycle" => f.calls[i].cycle = f.cycle
    /\ IsK(solve.cycle) =>
          /\ \A f \in Frames : f.cycle = solve.cycle
          /\ \A k \in 1..Len(trace) :
                /\ trace[k].op \in KrylovSteps =>
                      trace[k].level % solve.k_base = 0
                /\ trace[k].op \in {"call", "activate"} =>
                      trace[k].cycle = solve.cycle
    /\ ~IsK(solve.cycle) =>
          \A k \in 1..Len(trace) : trace[k].op \notin KrylovSteps

\* C22's case: with kcycle_base = 2 the activation at level 0 has taken the
\* first Krylov step and made the sub-call of the second, and the
\* activation that sub-call started at level 1 is about to return without
\* a Krylov step.
C22_Witness ==
    /\ IsK(solve.cycle) /\ solve.k_base = 2
    /\ Len(stack) = 2
    /\ stack[1].step1 /\ Len(stack[1].calls) = 2
    /\ stack[2].level = 1 /\ stack[2].pc = "post" /\ ~stack[2].step1
    /\ Len(stack[2].calls) = 1

(***************************************************************************)
(* Claims about the stop check of the K-cycle with several columns,        *)
(* checked under SpecCycle.                                                *)
(***************************************************************************)
\* column c meets the tolerance: new_norm <= rel_tol * old_norm
ColumnMeets(f, c) ==
    f.new_norm[c] * solve.rel_tol.den <= solve.rel_tol.num * f.old_norm[c]

RowsOf(level) ==
    IF level = 0 THEN params.system_rows
    ELSE mg.rstr_prlg_list[level].coarse_rows

\* the sizes of the scratch vectors, without what they hold
Geometry(st) ==
    [r_list |-> st.r_list, g_list |-> st.g_list,
     e_list |-> [i \in DOMAIN st.e_list |->
                    [rows |-> st.e_list[i].rows, cols |-> st.e_list[i].cols]],
     d_list |-> [i \in DOMAIN st.d_list |->
                    [rows |-> st.d_list[i].rows, cols |-> st.d_list[i].cols]],
     scalar_lists |-> st.scalar_lists, vw_lists |-> st.vw_lists]

\* rows and columns of a vector run_cycle is handed; b and x of apply have
\* the size of the system operator
SizeOf(v) ==
    CASE v.list = "g" -> state.g_list[v.idx + 1]
      [] v.list = "e" -> [rows |-> state.e_list[v.idx + 1].rows,
                          cols |-> state.e_list[v.idx + 1].cols]
      [] v.list = "d" -> [rows |-> state.d_list[v.idx + 1].rows,
                          cols |-> state.d_list[v.idx + 1].cols]
      [] OTHER -> [rows |-> params.system_rows, cols |-> solve.nrhs]

C24_State ==
    apc \in {"loop", "cycle", "done"} =>
        /\ Len(state.r_list) = total_level
        /\ Len(state.g_list) = total_level
        /\ Len(state.e_list) = total_level
        /\ \A i \in 1..total_level :
              /\ state.r_list[i] = [rows |-> RowsOf(i - 1), cols |-> solve.nrhs]
              /\ state.g_list[i] = [rows |-> RowsOf(i), cols |-> solve.nrhs]
              /\ state.e_list[i].rows = RowsOf(i)
              /\ state.e_list[i].cols = solve.nrhs
        /\ \A f \in Frames :
              /\ SizeOf(f.b) = [rows |-> RowsOf(f.level), cols |-> solve.nrhs]
              /\ SizeOf(f.x) = [rows |-> RowsOf(f.level), cols |-> solve.nrhs]
              /\ \A i \in 1..Len(f.calls) :
                    SizeOf(f.calls[i].x) =
                        [rows |-> RowsOf(f.level + 1), cols |-> solve.nrhs]

C24_Step ==
    apc # "start" => Geometry(state') = Geometry(state)

\* C24: the scratch vectors are created once, when apply starts, and no
\* cycle and no outer iteration changes their number or their sizes: level
\* i has one residual of rows(level i) x nrhs and one restricted right-hand
\* side and one correction of rows(level i + 1) x nrhs, and every (b, x)
\* handed to an activation or to the coarsest solver has the row count of
\* that level's operator.
C24_ScratchAllocatedOnce == [](C24_State) /\ [][C24_Step]_vars

\* C24's case: in the second outer iteration of a K-cycle over two levels
\* the activation at level 1 was handed the scratch vector d as its x.
C24_Witness ==
    /\ apc = "cycle" /\ cycles = 1
    /\ Len(stack) = 2
    /\ stack[2].x = Vec("d", 0)
    /\ stack[2].b = Vec("g", 0)

(***************************************************************************)
(* Claims about the number of activations of a cycle, checked under        *)
(* SpecCycle.                                                              *)
(***************************************************************************)
\* how many times the trace records the operation at the level
CountOp(op, level) ==
    Cardinality({k \in 1..Len(trace) :
                    trace[k].op = op /\ trace[k].level = level})

\* the cycle that level 0 started has returned to apply_impl
CycleReturned == apc = "cycle" /\ stack = <<>>

\* the activations of level i in one cycle of the type
ActivationsOf(cycle, i) ==
    CASE cycle = "v" -> 1
      [] cycle = "w" -> 2 ^ i
      [] cycle = "f" -> i + 1

\* C25: in one V-, W- or F-cycle over L levels, level i is activated once,
\* 2^i times and i + 1 times, and the coarsest solver is applied once, 2^L
\* times and L + 1 times; while the cycle runs the counts do not exceed
\* these numbers.
C25_ActivationCounts ==
    (apc = "cycle" /\ solve.cycle \in {"v", "w", "f"}) =>
        /\ \A i \in 0..(total_level - 1) :
              /\ CountOp("activate", i) <= ActivationsOf(solve.cycle, i)
              /\ CycleReturned =>
                    CountOp("activate", i) = ActivationsOf(solve.cycle, i)
        /\ CountOp("coarsest", total_level - 1)
              <= ActivationsOf(solve.cycle, total_level)
        /\ CycleReturned =>
              CountOp("coarsest", total_level - 1)
                 = ActivationsOf(solve.cycle, total_level)
        /\ \A i \in 0..(total_level - 2) : CountOp("coarsest", i) = 0

\* C25's case: an F-cycle over MaxDepth levels has returned; its deepest
\* level was activated MaxDepth times.
C25_Witness ==
    /\ CycleReturned
    /\ solve.cycle = "f"
    /\ total_level = MaxDepth
    /\ CountOp("activate", MaxDepth - 1) = MaxDepth
    /\ CountOp("coarsest", MaxDepth - 1) = MaxDepth + 1

(***************************************************************************)
(* Claims about the initial guess of the sub-solves, checked under         *)
(* SpecApply.                                                              *)
(***************************************************************************)
\* what a correction vector holds
ValOf(st, v) ==
    IF v.list = "e" THEN st.e_list[v.idx + 1].val ELSE st.d_list[v.idx + 1].val

\* the step makes a sub-solve, of run_cycle below level 0 or of the
\* coarsest solver
IsSubSolve(ev) == ev.op = "coarsest" \/ (ev.op = "call" /\ ev.level > 0)

\* the vector was handed to a sub-solve earlier in this cycle
HandedBefore(v) ==
    \E k \in 1..Len(trace) : IsSubSolve(trace[k]) /\ trace[k].vec = v

\* some correction vector e becomes zero in the step
Zeroes ==
    \E i \in DOMAIN state.e_list :
        /\ state.e_list[i].val # "zero"
        /\ state'.e_list[i].val = "zero"

C26_Step ==
    apc \in {"loop", "cycle"} =>
        /\ Zeroes => (apc = "loop" /\ apc' = "cycle" /\ stack = <<>>)
        /\ (apc = "loop" /\ apc' = "cycle") =>
              \A i \in DOMAIN state'.e_list : state'.e_list[i].val = "zero"
        /\ (trace' # trace /\ apc = "cycle" /\ apc' = "cycle"
              /\ IsSubSolve(trace'[Len(trace')])) =>
              LET x == trace'[Len(trace')].vec IN
              /\ solve.cycle = "v" => ValOf(state, x) = "zero"
              /\ (x.list = "e" /\ ~HandedBefore(x)) => ValOf(state, x) = "zero"
              /\ (x.list = "e" /\ HandedBefore(x)) => ValOf(state, x) = "set"
              /\ x.list = "d" => ValOf(state, x) = "set"
              /\ (Len(Top.calls) = 1 \/ CountOp("activate", Top.level) > 1)
                    => ValOf(state, x) = "set"

\* C26: the corrections e are filled with zeros by the loop of apply_impl
\* only, all of them before each cycle, and by no step of run_cycle.  So
\* every sub-solve of a V-cycle starts from a zero correction, while the
\* second sub-solve of an activation of a W-, F- or K-cycle, and the
\* sub-solves of an activation that visits its level again, start from a
\* correction written earlier in the cycle.
C26_ZeroedByOuterLoopOnly == [][C26_Step]_vars

\* C26's case: in the second outer iteration of a W-cycle over two levels
\* the second activation of level 1 is at its entry, the correction it
\* hands to the coarsest solver being the one its first activation left.
C26_Witness ==
    /\ apc = "cycle" /\ cycles = 1 /\ solve.cycle = "w"
    /\ Len(stack) = 2 /\ Top.pc = "enter" /\ Top.level = 1
    /\ CountOp("activate", 1) = 1
    /\ state.e_list[2].val = "set"

(***************************************************************************)
(* Claims about the lookups of run_cycle, checked under SpecCycle.         *)
(***************************************************************************)
\* the lists run_cycle looks up with .at(level)
LevelLists ==
    <<state.r_list, state.g_list, state.e_list, mg.rstr_prlg_list,
      mg.pre_smoother_list, mg.pre_relaxation_list,
      mg.mid_smoother_list, mg.mid_relaxation_list,
      mg.post_smoother_list, mg.post_relaxation_list>>

\* the lists of the K-cycle, looked up with .at(level / k_base): the five
\* scalars and the two norms, v and w, and d
KLists == <<state.scalar_lists, state.vw_lists, state.d_list>>

\* C27: no lookup of run_cycle is out of range: every activation is at a
\* level below the number of levels, each of the ten lists indexed by the
\* level has an entry for it, whatever post_uses_pre and mid_case are, and
\* at a K-cycle-active level the index level / k_base has an entry in the
\* lists of the K-cycle.
C27_LookupsInRange ==
    /\ apc # "out_of_range"
    /\ apc = "cycle" =>
          \A f \in Frames :
              /\ f.level < total_level
              /\ \A n \in 1..Len(LevelLists) : f.level < Len(LevelLists[n])
              /\ KActive(f) =>
                    \A n \in 1..Len(KLists) :
                        f.level \div solve.k_base < Len(KLists[n])

\* C27's case: a K-cycle with kcycle_base = MaxKBase over MaxDepth levels,
\* the mid lists shared with the post lists and those with the pre lists,
\* has reached its deepest level after the Krylov step of level 0.
C27_Witness ==
    /\ apc = "cycle"
    /\ IsK(solve.cycle) /\ solve.k_base = MaxKBase
    /\ total_level = MaxDepth
    /\ params.post_uses_pre /\ params.mid_case = "post"
    /\ Len(stack) = MaxDepth
    /\ stack[1].step1
    /\ Top.pc = "post"

(***************************************************************************)
(* Claims about the synchronization of the copies, checked under SpecCuda. *)
(***************************************************************************)
\* the runtime call that enqueues the copy of the operation
CopyCallOf(op) ==
    IF op \in {"raw_copy_to_cuda", "raw_copy_to_hip"}
    THEN "cudaMemcpyPeerAsync" ELSE "cudaMemcpyAsync"

C28_State ==
    (last.op \in Copies /\ last.result = "ok") =>
        /\ last.args.num_bytes > 0 =>
              /\ Len(last.log) = 2
              /\ last.log[1].call = CopyCallOf(last.op)
              /\ last.log[2].call = "cudaStreamSynchronize"
              /\ last.log[1].target = last.args.device_id
              /\ last.log[2].target = last.args.device_id
              /\ cuda.pending = <<>>
        /\ last.args.num_bytes = 0 => last.log = <<>>

C28_Step ==
    (last'.op \in SameBackendCopies /\ last'.result = "ok") =>
        /\ Copied
        /\ last'.args.num_bytes = 0 =>
              cuda'.mem = cuda.mem /\ cuda'.pending = cuda.pending

\* C28: a copy of one or more bytes from the host to a device, from a
\* device to the host or between devices that returns has enqueued the copy
\* on the stream of its CUDA executor and then synchronized that stream: no
\* copy is pending and the destination holds the bytes.  A copy of zero
\* bytes that is not refused makes no runtime call and changes nothing.
C28_CopiesSynchronize == [](C28_State) /\ [][C28_Step]_vars

\* C28's case: a copy between two devices has returned with the bytes in
\* the destination and nothing pending.
C28_Witness ==
    /\ last.op = "raw_copy_to_cuda"
    /\ last.result = "ok"
    /\ last.args.num_bytes > 0
    /\ cuda.pending = <<>>
    /\ cuda.mem["peer"] = cuda.mem["device"]
    /\ cuda.mem["peer"][1] # 0

(***************************************************************************)
(* count_non_owning_entries (omp/distributed/assembly_kernels.cpp).  The   *)
(* threads of the parallel loop take the iterations in any order; an       *)
(* iteration is two steps of its thread, the first up to the store into    *)
(* row_part_ids_per_entry and the second the rest of the body.  kern holds *)
(* the arguments, the arrays and, for every thread, its private            *)
(* row_range_id and the iteration it is in.                                *)
(***************************************************************************)
MaxEntries == 3     \* input has 0..MaxEntries stored elements

\* the threads of the team
Threads == {"t1", "t2"}

\* the row partition: range r holds the rows range_bounds[r] up to, not
\* including, range_bounds[r + 1] (the sequences are indexed from 1)
range_bounds == <<0, 2, 3>>
num_ranges == Len(range_bounds) - 1
Rows == 0..(range_bounds[Len(range_bounds)] - 1)
Parts == 0..1

\* get_part_ids(): the part of every range
PartIdMaps == {<<0, 1>>, <<1, 0>>, <<1, 1>>}

\* find_range(idx, partition, hint): the hint when its range holds idx,
\* and otherwise the distance from range_bounds + 1 to the upper bound of
\* idx in range_bounds[1..num_ranges]
find_range(idx, hint) ==
    IF range_bounds[hint + 1] <= idx /\ idx < range_bounds[hint + 2]
    THEN hint
    ELSE Cardinality({k \in 1..num_ranges : range_bounds[k + 1] <= idx})

\* an increment that stores one more than the value the thread loaded on
\* entering the iteration
increment_from_loaded(send_count, row_part_id, loaded) ==
    [send_count EXCEPT ![row_part_id] = loaded + 1]

\* lines 48-49: #pragma omp atomic send_count[row_part_id]++
omp_atomic_increment(send_count, row_part_id, loaded) ==
    [send_count EXCEPT ![row_part_id] = @ + 1]

\* the key comp gives a position (lines 56-62)
comp_key(k, v) ==
    IF v = -1 THEN k.local_part ELSE k.row_part_ids_per_entry[v + 1]

\* std::stable_sort(original_positions, ..., comp), lines 63-64
stable_sort(k) ==
    LET pos == k.original_positions
        n == Len(pos)
        before(a, b) ==
            \/ comp_key(k, pos[a]) < comp_key(k, pos[b])
            \/ (comp_key(k, pos[a]) = comp_key(k, pos[b]) /\ a < b)
        rank(b) == Cardinality({a \in 1..n : before(a, b)}) + 1
    IN  [r \in 1..n |-> pos[CHOOSE b \in 1..n : rank(b) = r]]

\* components::prefix_sum_nonnegative: the exclusive prefix sum
RECURSIVE SumTo(_, _)
SumTo(flags, n) == IF n = 0 THEN 0 ELSE flags[n] + SumTo(flags, n - 1)
prefix_sum_nonnegative(flags) == [i \in 1..Len(flags) |-> SumTo(flags, i - 1)]

\* the inputs of a call: rows of the stored elements
RowIdxs == UNION {[1..n -> Rows] : n \in 0..MaxEntries}

NewThread == [pc |-> "idle", i |-> 0, row_range_id |-> 0, row_part_id |-> 0,
              loaded |-> 0]

\* the call has reached the parallel loop (lines 35-41); send_count holds
\* what the caller left in it and the other arrays are not initialised
InitCount ==
    /\ \E rows \in RowIdxs, part_ids \in PartIdMaps, local_part \in Parts :
          kern = [pc |-> "loop",
                  input_row_idxs |-> rows,
                  row_part_ids |-> part_ids,
                  local_part |-> local_part,
                  send_count_in |-> [p \in Parts |-> p + 1],
                  send_count |-> [p \in Parts |-> p + 1],
                  row_part_ids_per_entry |-> [i \in 1..Len(rows) |-> -2],
                  original_positions |-> [i \in 1..Len(rows) |-> -2],
                  send_positions |-> [i \in 1..Len(rows) |-> -2],
                  todo |-> 0..(Len(rows) - 1),
                  thread |-> [t \in Threads |-> NewThread]]
    /\ params = [max_levels |-> 0]
    /\ mg = [status |-> "new"]
    /\ ApplyIdle
    /\ NumIdle
    /\ CudaIdle

\* lines 43-46: a thread takes an iteration and finds the part of its row
CountEnter(t) ==
    /\ kern.pc = "loop"
    /\ kern.thread[t].pc = "idle"
    /\ \E i \in kern.todo :
          LET global_row == kern.input_row_idxs[i + 1]
              row_range_id == find_range(global_row, kern.thread[t].row_range_id)
              row_part_id == kern.row_part_ids[row_range_id + 1]
          IN  kern' = [kern EXCEPT
                  !.todo = @ \ {i},
                  !.row_part_ids_per_entry[i + 1] = row_part_id,
                  !.thread[t] = [pc |-> "found", i |-> i,
                                 row_range_id |-> row_range_id,
                                 row_part_id |-> row_part_id,
                                 loaded |-> kern.send_count[row_part_id]]]
    /\ UNCHANGED <<genVars, applyVars, numVars, cudaVars>>

\* lines 47-53: the entry is counted and its position stored
CountUpdate(t) ==
    /\ kern.pc = "loop"
    /\ kern.thread[t].pc = "found"
    /\ LET th == kern.thread[t] IN
       kern' = [kern EXCEPT
           !.send_count =
               IF th.row_part_id # kern.local_part
               THEN omp_atomic_increment(@, th.row_part_id, th.loaded)
               ELSE @,
           !.original_positions[th.i + 1] =
               IF th.row_part_id # kern.local_part THEN th.i ELSE -1,
           !.thread[t] = [th EXCEPT !.pc = "idle", !.loaded = 0]]
    /\ UNCHANGED <<genVars, applyVars, numVars, cudaVars>>

\* line 54: the barrier at the end of the parallel loop
CountBarrier ==
    /\ kern.pc = "loop"
    /\ kern.todo = {}
    /\ \A t \in Threads : kern.thread[t].pc = "idle"
    /\ kern' = [kern EXCEPT !.pc = "counted"]
    /\ UNCHANGED <<genVars, applyVars, numVars, cudaVars>>

\* lines 56-73: the sort and the positions
CountSort ==
    /\ kern.pc = "counted"
    /\ LET sorted == stable_sort(kern)
           flags == [i \in 1..Len(sorted) |-> IF sorted[i] = -1 THEN 0 ELSE 1]
       IN  kern' = [kern EXCEPT !.pc = "done",
                                !.original_positions = sorted,
                                !.send_positions = prefix_sum_nonnegative(flags)]
    /\ UNCHANGED <<genVars, applyVars, numVars, cudaVars>>

NextCount ==
    \/ \E t \in Threads : CountEnter(t)
    \/ \E t \in Threads : CountUpdate(t)
    \/ CountBarrier
    \/ CountSort

SpecCount == InitCount /\ [][NextCount]_vars

(***************************************************************************)
(* Claims about count_non_owning_entries, checked under SpecCount.         *)
(***************************************************************************)
\* the part that owns a row of the model's partition
OwnerOf(row) ==
    LET r == CHOOSE q \in 1..num_ranges :
                 range_bounds[q] <= row /\ row < range_bounds[q + 1]
    IN  kern.row_part_ids[r]

\* the input entries whose row the part owns
OwnedBy(p) ==
    {i \in 1..Len(kern.input_row_idxs) : OwnerOf(kern.input_row_idxs[i]) = p}

\* C29: when the parallel loop has ended, and after the kernel, send_count
\* of every part but local_part has grown by the number of input entries
\* whose row the part owns, and send_count of local_part is as it was,
\* whatever the order in which the threads ran; before the sort
\* original_positions[i] is i for an entry of another part and -1 for an
\* entry of local_part.
C29_CountsAndPositions ==
    /\ kern.pc \in {"counted", "done"} =>
          \A p \in Parts :
              kern.send_count[p] =
                  IF p = kern.local_part THEN kern.send_count_in[p]
                  ELSE kern.send_count_in[p] + Cardinality(OwnedBy(p))
    /\ kern.pc = "counted" =>
          \A i \in 1..Len(kern.input_row_idxs) :
              kern.original_positions[i] =
                  IF i \in OwnedBy(kern.local_part) THEN -1 ELSE i - 1

\* C29's case: the loop has ended for MaxEntries entries of which one part
\* that is not local_part owns two or more, and local_part owns one.
C29_Witness ==
    /\ kern.pc = "counted"
    /\ Len(kern.input_row_idxs) = MaxEntries
    /\ OwnedBy(kern.local_part) # {}
    /\ \E p \in Parts : Cardinality(OwnedBy(p)) >= 2 /\ p # kern.local_part

\* two threads are inside the body for entries of one part that is not
\* local_part, one increment of its counter being done already
C29_Contention ==
    /\ kern.pc = "loop"
    /\ Len(kern.input_row_idxs) = MaxEntries
    /\ \A t \in Threads :
          /\ kern.thread[t].pc = "found"
          /\ kern.thread[t].row_part_id # kern.local_part
          /\ kern.thread[t].row_part_id = kern.thread["t1"].row_part_id
    /\ kern.send_count # kern.send_count_in

(***************************************************************************)
(* fill_coarse_indices (common/unified/multigrid/fixed_coarsening_kernels) *)
(* The kernel is launched with one thread per fine row and only thread 0   *)
(* works: it runs the loop over the fine rows, one iteration a step.  A    *)
(* read of coarse_data past its end gives any value.                       *)
(***************************************************************************)
MaxFine == 4        \* coarse_row_map has 0..MaxFine elements

\* strictly increasing row indices below f_size
RECURSIVE IncreasingSeqs(_, _)
IncreasingSeqs(from, f_size) ==
    {<<>>} \cup UNION {{<<r>> \o rest : rest \in IncreasingSeqs(r + 1, f_size)} :
                        r \in from..(f_size - 1)}

\* what a read past the end of coarse_data can give
Garbage == -1..(MaxFine - 1)

\* coarse_data[idx], line 89
coarse_data_at(coarse_rows, idx, garbage) ==
    IF idx < Len(coarse_rows) THEN coarse_rows[idx + 1] ELSE garbage

\* the kernel is launched (lines 81-86); every entry of the map holds -1
InitFill ==
    /\ \E f_size \in 0..MaxFine :
       \E coarse_rows \in IncreasingSeqs(0, f_size) :
          kern = [pc |-> IF f_size = 0 THEN "done" ELSE "fill",
                  coarse_rows |-> coarse_rows,
                  f_size |-> f_size,
                  coarse_row_map_in |-> [i \in 1..f_size |-> -1],
                  coarse_row_map |-> [i \in 1..f_size |-> -1],
                  i |-> 0, idx |-> 0,
                  read_at |-> -1]        \* the largest position read so far
    /\ params = [max_levels |-> 0]
    /\ mg = [status |-> "new"]
    /\ ApplyIdle
    /\ NumIdle
    /\ CudaIdle

\* lines 88-93: one iteration of the loop of thread 0
FillStep ==
    /\ kern.pc = "fill"
    /\ kern.i < kern.f_size
    /\ \E garbage \in IF kern.idx < Len(kern.coarse_rows) THEN {0} ELSE Garbage :
          LET read == coarse_data_at(kern.coarse_rows, kern.idx, garbage)
              at_max == IF kern.idx > kern.read_at THEN kern.idx ELSE kern.read_at
          IN  IF kern.i = read
              THEN kern' = [kern EXCEPT !.coarse_row_map[kern.i + 1] = kern.idx,
                                        !.idx = @ + 1, !.i = @ + 1,
                                        !.read_at = at_max]
              ELSE kern' = [kern EXCEPT !.i = @ + 1, !.read_at = at_max]
    /\ UNCHANGED <<genVars, applyVars, numVars, cudaVars>>

\* line 88: the loop ends
FillReturn ==
    /\ kern.pc = "fill"
    /\ kern.i >= kern.f_size
    /\ kern' = [kern EXCEPT !.pc = "done"]
    /\ UNCHANGED <<genVars, applyVars, numVars, cudaVars>>

NextFill == FillStep \/ FillReturn

SpecFill == InitFill /\ [][NextFill]_vars

(***************************************************************************)
(* Claims about fill_coarse_indices, checked under SpecFill.               *)
(***************************************************************************)
\* the fine rows that are coarse rows
CoarseSet == {kern.coarse_rows[k] : k \in 1..Len(kern.coarse_rows)}

\* C30: for strictly increasing coarse rows inside the fine range the
\* kernel sets coarse_row_map[coarse_rows[k]] = k for every k, leaves every
\* other entry of the map as it was, and never reads coarse_rows at or past
\* its length.
C30_FillCoarseIndices ==
    /\ kern.read_at < Len(kern.coarse_rows)
    /\ kern.pc = "done" =>
          /\ \A k \in 1..Len(kern.coarse_rows) :
                kern.coarse_row_map[kern.coarse_rows[k] + 1] = k - 1
          /\ \A i \in 1..kern.f_size :
                (i - 1) \notin CoarseSet =>
                    kern.coarse_row_map[i] = kern.coarse_row_map_in[i]

=============================================================================
